---- MODULE Spec2Model ----
(***************************************************************************)
(* Firmata client (platforms/firmata/client/client.go, channel variant,    *)
(* lines 1-541): the Connect / Disconnect lifecycle, the handshake         *)
(* goroutine, the serving loop, the frame reader and dispatcher            *)
(* (process), and the Request API, over a transport with a board at the    *)
(* other end.                                                              *)
(***************************************************************************)
EXTENDS Integers, Sequences, FiniteSets, TLC

(***************************************************************************)
(* Bounds of the model.                                                    *)
(***************************************************************************)
\* Connect calls that find the client not connected and go on to the
\* handshake; one more call may be made and rejected.  Call k passes
\* transport k.
MaxConnects == 1
\* Transport writes that may fail while the transport is open.
MaxWriteFails == 1
\* Transport reads that may fail with a non-EOF error while it is open.
MaxReadErrs == 1
\* Disconnect calls made on the instance.
MaxDisconnects == 1
\* Request API calls made on the connected client.
MaxApiCalls == 2
\* Frames the board sends unasked in a decoding run.
MaxFed == 2
\* Query calls made by the application's goroutines.
MaxQueries == 2

(***************************************************************************)
(* Protocol constants (client.go:14-53).                                   *)
(***************************************************************************)
Input == 0
Output == 1
Analog == 2
Pwm == 3
Servo == 4

ProtocolVersion == 249
SystemReset == 255
DigitalMessage == 144
DigitalMessageRangeStart == 144
DigitalMessageRangeEnd == 159
AnalogMessage == 224
AnalogMessageRangeStart == 224
AnalogMessageRangeEnd == 239
ReportAnalog == 192
ReportDigital == 208
PinMode == 244
StartSysex == 240
EndSysex == 247
CapabilityQuery == 107
CapabilityResponse == 108
PinStateQuery == 109
PinStateResponse == 110
AnalogMappingQuery == 105
AnalogMappingResponse == 106
StringData == 113
I2CRequest == 118
I2CReply == 119
I2CConfig == 120
FirmwareQuery == 121
I2CModeRead == 1

(***************************************************************************)
(* Byte and slice arithmetic as Go computes it.                            *)
(***************************************************************************)
\* Go slices are 0-based.
At(s, i) == s[i + 1]

\* s[lo:hi] of Go, for 0 <= lo <= hi <= len(s).
Slice(s, lo, hi) == SubSeq(s, lo + 1, hi)

RECURSIVE BitOr(_, _)
\* a | b on non-negative integers.
BitOr(a, b) ==
  IF a = 0 THEN b
  ELSE IF b = 0 THEN a
  ELSE (IF (a % 2 = 1) \/ (b % 2 = 1) THEN 1 ELSE 0) + 2 * BitOr(a \div 2, b \div 2)

\* byte(x): truncation to 8 bits.
ToByte(x) == x % 256

\* byte(lo) | byte(hi)<<7 in byte arithmetic.
ByteOr7(lo, hi) == BitOr(ToByte(lo), ToByte(hi * 128))

\* uint(lo) | uint(hi)<<7 in word arithmetic.
UintOr7(lo, hi) == BitOr(lo, hi * 128)

\* Capacity of currentBuffer once it holds n bytes: read(3) allocates a
\* size-class-8 array, append doubles it.
RECURSIVE CapFrom(_, _)
CapFrom(c, n) == IF n <= c THEN c ELSE CapFrom(2 * c, n)

BufCap(n) == CapFrom(8, n)

\* currentBuffer[i] for i below the capacity: bytes past the length are the
\* zeroes of the allocation.
AtCap(s, i) == IF i < Len(s) THEN At(s, i) ELSE 0

(***************************************************************************)
(* Request encodings.                                                      *)
(***************************************************************************)
writeSysex(data) == <<StartSysex>> \o data \o <<EndSysex>>

ResetFrame == <<SystemReset>>
ProtocolVersionQueryFrame == <<ProtocolVersion>>
FirmwareQueryFrame == writeSysex(<<FirmwareQuery>>)
CapabilityQueryFrame == writeSysex(<<CapabilityQuery>>)
AnalogMappingQueryFrame == writeSysex(<<AnalogMappingQuery>>)

\* togglePinReporting: state is normalised to 0 or 1.
ToggleFrame(pin, state, mode) ==
  <<BitOr(mode, ToByte(pin)), IF state # 0 THEN 1 ELSE 0>>

SetPinModeFrame(pin, mode) == <<PinMode, ToByte(pin), ToByte(mode)>>

PinStateQueryFrame(pin) == writeSysex(<<PinStateQuery, ToByte(pin)>>)

\* I2cRead: I2CModeRead << 3, then numBytes in two 7-bit halves.
I2cReadFrame(address, numBytes) ==
  writeSysex(<<I2CRequest, ToByte(address), (I2CModeRead * 8) % 256,
               ToByte(numBytes) % 128, (ToByte(numBytes) \div 128) % 128>>)

(***************************************************************************)
(* The dispatcher: process() applied to one frame buffer.  A client image  *)
(* is the record [pins, analogPins, protocolVersion, firmwareName]; the    *)
(* result adds emit, the non-blocking sends the frame attempts in order,   *)
(* and panic, TRUE when the code faults (index or slice out of range).     *)
(***************************************************************************)
NewPin(modes) ==
  [SupportedModes |-> modes, Mode |-> Output, Value |-> 0, State |-> 0,
   AnalogChannel |-> 0]

RECURSIVE DecDigits(_)
\* fmt's %v of a byte: its decimal digits.
DecDigits(n) ==
  IF n < 10 THEN <<n>> ELSE Append(DecDigits(n \div 10), n % 10)

\* fmt.Sprintf("%v.%v", major, minor)
FormatVersion(major, minor) == DecDigits(major) \o <<".">> \o DecDigits(minor)

Result(m, emit, panic) ==
  [pins |-> m.pins, analogPins |-> m.analogPins,
   protocolVersion |-> m.protocolVersion, firmwareName |-> m.firmwareName,
   emit |-> emit, panic |-> panic]

BoolSignal(name) == [kind |-> "bool", name |-> name]

ProcessProtocolVersion(m, buf) ==
  Result([m EXCEPT !.protocolVersion = FormatVersion(At(buf, 1), At(buf, 2))],
         <<BoolSignal("ProtocolVersion")>>, FALSE)

\* A variant of ProcessAnalog that keeps only the low seven bits.
ProcessAnalog_LowByte(m, buf) ==
  LET value == At(buf, 1)
      pin == At(buf, 0) % 16
  IN IF Len(m.analogPins) > pin /\ Len(m.pins) > At(m.analogPins, pin)
     THEN LET p == At(m.analogPins, pin)
              pins2 == [m.pins EXCEPT ![p + 1].Value = value]
          IN Result([m EXCEPT !.pins = pins2],
                    <<[kind |-> "report", pin |-> p, data |-> pins2[p + 1]]>>,
                    FALSE)
     ELSE Result(m, <<>>, FALSE)

ProcessAnalog(m, buf) ==
  LET value == UintOr7(At(buf, 1), At(buf, 2))
      pin == At(buf, 0) % 16
  IN IF Len(m.analogPins) > pin /\ Len(m.pins) > At(m.analogPins, pin)
     THEN LET p == At(m.analogPins, pin)
              pins2 == [m.pins EXCEPT ![p + 1].Value = value]
          IN Result([m EXCEPT !.pins = pins2],
                    <<[kind |-> "report", pin |-> p, data |-> pins2[p + 1]]>>,
                    FALSE)
     ELSE Result(m, <<>>, FALSE)

RECURSIVE DigitalWalk_AllPins(_, _, _, _, _)
\* A variant of DigitalWalk that does not look at the pin's mode.
DigitalWalk_AllPins(pins, port, portValue, i, emit) ==
  IF i >= 8 THEN [pins |-> pins, emit |-> emit]
  ELSE LET pinNumber == ToByte(8 * port + i)
       IN IF Len(pins) > pinNumber
          THEN LET bit == (portValue \div (2 ^ i)) % 2
                   pins2 == [pins EXCEPT ![pinNumber + 1].Value = bit]
               IN DigitalWalk_AllPins(pins2, port, portValue, i + 1,
                    Append(emit, [kind |-> "report", pin |-> pinNumber,
                                  data |-> pins2[pinNumber + 1]]))
          ELSE DigitalWalk_AllPins(pins, port, portValue, i + 1, emit)

RECURSIVE DigitalWalk(_, _, _, _, _)
DigitalWalk(pins, port, portValue, i, emit) ==
  IF i >= 8 THEN [pins |-> pins, emit |-> emit]
  ELSE LET pinNumber == ToByte(8 * port + i)
       IN IF Len(pins) > pinNumber /\ pins[pinNumber + 1].Mode = Input
          THEN LET bit == (portValue \div (2 ^ i)) % 2
                   pins2 == [pins EXCEPT ![pinNumber + 1].Value = bit]
               IN DigitalWalk(pins2, port, portValue, i + 1,
                    Append(emit, [kind |-> "report", pin |-> pinNumber,
                                  data |-> pins2[pinNumber + 1]]))
          ELSE DigitalWalk(pins, port, portValue, i + 1, emit)

ProcessDigital(m, buf) ==
  LET port == At(buf, 0) % 16
      portValue == ByteOr7(At(buf, 1), At(buf, 2))
      w == DigitalWalk(m.pins, port, portValue, 0, <<>>)
  IN Result([m EXCEPT !.pins = w.pins], w.emit, FALSE)

\* The modes kept from the accumulated bit set, in the order the code tests.
ModesOf(bits) ==
  SelectSeq(<<Input, Output, Analog, Pwm, Servo>>, LAMBDA mode: mode \in bits)

RECURSIVE CapabilityWalk(_, _, _, _, _)
\* bits is the set of bit positions set in supportedModes (a 64-bit int:
\* a shift by 64 or more sets nothing).
CapabilityWalk(body, i, pins, bits, n) ==
  IF i > Len(body) THEN pins
  ELSE LET val == body[i]
       IN IF val = 127
          THEN CapabilityWalk(body, i + 1, Append(pins, NewPin(ModesOf(bits))), {}, 0)
          ELSE CapabilityWalk(body, i + 1, pins,
                 IF n = 0 /\ val < 64 THEN bits \cup {val} ELSE bits, 1 - n)

ProcessCapabilityResponse(m, cb) ==
  IF Len(cb) - 5 < 2
  THEN Result([m EXCEPT !.pins = <<>>], <<>>, TRUE)
  ELSE Result([m EXCEPT !.pins =
                 CapabilityWalk(Slice(cb, 2, Len(cb) - 5), 1, <<>>, {}, 0)],
              <<BoolSignal("CapabilityQuery")>>, FALSE)

RECURSIVE AnalogMappingWalk(_, _, _, _, _)
AnalogMappingWalk(cb, i, high, pins, analogPins) ==
  IF i >= high THEN [pins |-> pins, analogPins |-> analogPins]
  ELSE LET val == AtCap(cb, i)
           pinIndex == i - 2
       IN AnalogMappingWalk(cb, i + 1, high,
            [pins EXCEPT ![pinIndex + 1].AnalogChannel = val],
            IF val # 127 THEN Append(analogPins, pinIndex) ELSE analogPins)

ProcessAnalogMappingResponse(m, cb) ==
  LET high == Len(m.pins) - 1
  IN IF high < 2 \/ high > BufCap(Len(cb))
     THEN Result([m EXCEPT !.analogPins = <<>>], <<>>, TRUE)
     ELSE LET w == AnalogMappingWalk(cb, 2, high, m.pins, <<>>)
          IN Result([m EXCEPT !.pins = w.pins, !.analogPins = w.analogPins],
                    <<BoolSignal("AnalogMappingQuery")>>, FALSE)

\* A variant of ProcessPinStateResponse that never reads the third state byte.
ProcessPinStateResponse_TwoBytes(m, cb) ==
  LET pin == At(cb, 2)
  IN IF pin >= Len(m.pins) \/ Len(cb) < 5
     THEN Result(m, <<>>, TRUE)
     ELSE LET s0 == At(cb, 4)
              s1 == IF Len(cb) > 6 THEN BitOr(s0, At(cb, 5) * 128) ELSE s0
              pins2 == [m.pins EXCEPT ![pin + 1].Mode = At(cb, 3),
                                      ![pin + 1].State = s1]
          IN Result([m EXCEPT !.pins = pins2],
                    <<[kind |-> "pinstate", pin |-> pin, data |-> pins2[pin + 1]]>>,
                    FALSE)

ProcessPinStateResponse(m, cb) ==
  LET pin == At(cb, 2)
  IN IF pin >= Len(m.pins) \/ Len(cb) < 5
     THEN Result(m, <<>>, TRUE)
     ELSE LET s0 == At(cb, 4)
              s1 == IF Len(cb) > 6 THEN BitOr(s0, At(cb, 5) * 128) ELSE s0
              s2 == IF Len(cb) > 7 THEN BitOr(s1, At(cb, 6) * 16384) ELSE s1
              pins2 == [m.pins EXCEPT ![pin + 1].Mode = At(cb, 3),
                                      ![pin + 1].State = s2]
          IN Result([m EXCEPT !.pins = pins2],
                    <<[kind |-> "pinstate", pin |-> pin, data |-> pins2[pin + 1]]>>,
                    FALSE)

RECURSIVE I2cDataWalk(_, _, _)
I2cDataWalk(cb, i, data) ==
  IF i >= Len(cb) THEN data
  ELSE IF At(cb, i) = EndSysex THEN data
  ELSE IF i + 2 > Len(cb) THEN data
  ELSE I2cDataWalk(cb, i + 2, Append(data, ByteOr7(At(cb, i), At(cb, i + 1))))

ProcessI2CReply(m, cb) ==
  IF Len(cb) < 8
  THEN Result(m, <<>>, TRUE)
  ELSE Result(m,
         <<[kind |-> "i2c",
            data |-> [Address |-> ByteOr7(At(cb, 2), At(cb, 3)),
                      Register |-> ByteOr7(At(cb, 4), At(cb, 5)),
                      Data |-> I2cDataWalk(cb, 8, <<ByteOr7(At(cb, 6), At(cb, 7))>>)]]>>,
         FALSE)

ProcessFirmwareQuery(m, cb) ==
  IF Len(cb) - 1 < 4
  THEN Result(m, <<>>, TRUE)
  ELSE Result([m EXCEPT !.firmwareName =
                 SelectSeq(Slice(cb, 4, Len(cb) - 1), LAMBDA val: val # 0)],
              <<BoolSignal("FirmwareQuery")>>, FALSE)

ProcessStringData(m, cb) ==
  Result(m, <<[kind |-> "string", data |-> Slice(cb, 2, Len(cb) - 1)]>>, FALSE)

ProcessSysex(m, cb) ==
  LET command == At(cb, 1)
  IN CASE command = CapabilityResponse -> ProcessCapabilityResponse(m, cb)
       [] command = AnalogMappingResponse -> ProcessAnalogMappingResponse(m, cb)
       [] command = PinStateResponse -> ProcessPinStateResponse(m, cb)
       [] command = I2CReply -> ProcessI2CReply(m, cb)
       [] command = FirmwareQuery -> ProcessFirmwareQuery(m, cb)
       [] command = StringData -> ProcessStringData(m, cb)
       [] OTHER -> Result(m, <<>>, FALSE)

\* The switch of process() on the buffer it has read.
Dispatch(m, cb) ==
  LET messageType == At(cb, 0)
  IN CASE messageType = ProtocolVersion -> ProcessProtocolVersion(m, cb)
       [] AnalogMessageRangeStart <= messageType /\ AnalogMessageRangeEnd >= messageType
            -> ProcessAnalog(m, cb)
       [] DigitalMessageRangeStart <= messageType /\ DigitalMessageRangeEnd >= messageType
            -> ProcessDigital(m, cb)
       [] messageType = StartSysex -> ProcessSysex(m, cb)
       [] OTHER -> Result(m, <<>>, FALSE)

(***************************************************************************)
(* The frame reader: how many bytes of the stream one process() call       *)
(* consumes.  read(3) takes three bytes; for StartSysex, read(1) repeats   *)
(* until a byte read after those three is EndSysex.                        *)
(***************************************************************************)
SysexEnds(stream) == {j \in 4..Len(stream) : stream[j] = EndSysex}

Min(S) == CHOOSE x \in S : \A y \in S : x <= y

\* A whole frame is available, so process() returns without blocking.
FrameReady(stream) ==
  /\ Len(stream) >= 3
  /\ stream[1] = StartSysex => SysexEnds(stream) # {}

FrameLen(stream) ==
  IF stream[1] = StartSysex THEN Min(SysexEnds(stream)) ELSE 3

(***************************************************************************)
(* The board at the far end of a transport: it answers each handshake      *)
(* query with its response.  The board has four pins: pin 0 input only,    *)
(* pin 1 output only, pins 2 and 3 input and output, pins 2 and 3 analog   *)
(* channels 0 and 1.                                                       *)
(***************************************************************************)
ProtocolResponse == <<ProtocolVersion, 2, 3>>

FirmwareResponse == <<StartSysex, FirmwareQuery, 2, 3, 65, 0, EndSysex>>

CapabilitiesResponse ==
  <<StartSysex, CapabilityResponse, 0, 1, 127, 1, 1, 127, 0, 1, 1, 1, 127,
    0, 1, 1, 1, 127, EndSysex>>

AnalogMappingResponseFrame ==
  <<StartSysex, AnalogMappingResponse, 127, 127, 0, 1, EndSysex>>

\* The pin and the I2C device the application's query tasks ask about.
QueriedPin == 2

QueriedAddress == 9

PinStateAnswer == <<StartSysex, PinStateResponse, QueriedPin, 1, 1, EndSysex>>

I2cAnswer ==
  <<StartSysex, I2CReply, QueriedAddress, 0, 0, 0, 24, 1, 1, 0, 26, 1, EndSysex>>

BoardAnswer(frame) ==
  CASE frame = ProtocolVersionQueryFrame -> ProtocolResponse
    [] frame = FirmwareQueryFrame -> FirmwareResponse
    [] frame = CapabilityQueryFrame -> CapabilitiesResponse
    [] frame = AnalogMappingQueryFrame -> AnalogMappingResponseFrame
    [] frame = PinStateQueryFrame(QueriedPin) -> PinStateAnswer
    [] frame = I2cReadFrame(QueriedAddress, 3) -> I2cAnswer
    [] OTHER -> <<>>

(***************************************************************************)
(* State.                                                                  *)
(***************************************************************************)
Calls == 1..(MaxConnects + 1)

\* The four handshake queries, in the order the goroutine issues them, by
\* the key of their one-shot in boolChan.
QNames == <<"ProtocolVersion", "FirmwareQuery", "CapabilityQuery", "AnalogMappingQuery">>

QIndex(name) == CHOOSE q \in 1..4 : QNames[q] = name

QueryFrame(q) ==
  CASE q = 1 -> ProtocolVersionQueryFrame
    [] q = 2 -> FirmwareQueryFrame
    [] q = 3 -> CapabilityQueryFrame
    [] q = 4 -> AnalogMappingQueryFrame

VARIABLES
  connected,        \* Client.connected
  connection,       \* Client.connection: 0 is nil, k the transport of call k
  pins,             \* Client.pins
  analogPins,       \* Client.analogPins
  protocolVersion,  \* Client.protocolVersion
  firmwareName,     \* Client.firmwareName
  boolChan,         \* Client.boolChan: key -> the call whose goroutine made the
                    \* channel now stored, 0 for the channel made by New
  pinReportChan,    \* Client.pinReportChan: pin -> the call that made the channel
  wire,             \* per transport: the frames written to it, each with its writer
  boardPos,         \* per transport: how many written frames the board has answered
  inbound,          \* per transport: bytes the board sent that were not yet read
  closed,           \* per transport: Close has been called
  closedRead,       \* per transport: what a read returns once it is closed,
                    \* "err" or "eof" ("open" before Close)
  mainPc,           \* per Connect call: position of the caller in Connect
  mainRet,          \* per Connect call: what Connect returned
  hs,               \* per Connect call: the handshake goroutine (lines 156-168)
  srvPc,            \* per Connect call: the serving goroutine (lines 175-187)
  discPc,           \* position of the caller of Disconnect
  discLeft,         \* Disconnect calls still to be made
  writeFailsLeft,   \* transport write failures still to be injected
  readErrsLeft,     \* transport read errors still to be injected
  apiLeft,          \* Request API calls still to be made
  apiCall,          \* the last Request API call: its arguments and result
  panicked,         \* the program died of a run-time panic
  acked,            \* per Connect call: the queries of its goroutine whose
                    \* response the dispatcher processed after the query was written
  last,             \* the last process() call: what it read, dispatched and sent
  pinStateChan,     \* Client.pinStateChan[pin] of the one pin queried: -1 is no entry
  i2cChan,          \* Client.i2cChan: the channel stored, 0 for the one New made
  qry,              \* per query task: the query it issues, its position, its channel
  sel,              \* the channel operand process() evaluated for its pending send
  pending,          \* the sends of the current process() call not yet attempted
  Error,            \* Client.Error: the channel stored, 0 is nil
  errPc,            \* the goroutine of the application that receives on Error
  capWalk           \* process() inside the loop of its CapabilityResponse case:
                    \* the bytes it ranges over, its position, supportedModes, n

vars ==
  <<connected, connection, pins, analogPins, protocolVersion, firmwareName,
    boolChan, pinReportChan, wire, boardPos, inbound, closed, closedRead,
    mainPc, mainRet, hs, srvPc, discPc, discLeft, writeFailsLeft, readErrsLeft,
    apiLeft, apiCall, panicked, acked, last, pinStateChan, i2cChan, qry, sel,
    pending, Error, errPc, capWalk>>

\* What the decoding and query runs leave alone.
reqVars == <<pending, Error, errPc, capWalk>>

sinkVars == <<last, pinStateChan, i2cChan, qry, sel, reqVars>>

clientVars == <<pins, analogPins, protocolVersion, firmwareName>>

taskVars == <<mainPc, mainRet, hs, srvPc>>

NoCall == [op |-> "none", pin |-> -1, mode |-> -1, value |-> -1, ret |-> "none"]

\* The goroutines that issue PinStateQuery or I2cRead.
Tasks == 1..MaxQueries

\* No process() call was made yet.
NoLast ==
  [fed |-> 0, calls |-> 0, stream |-> <<>>, split |-> <<>>, head |-> <<>>,
   buf |-> <<>>, taken |-> 0, pins |-> <<>>, analogPins |-> <<>>,
   protocolVersion |-> <<>>, firmwareName |-> <<>>, emit |-> <<>>]

NoQuery == [kind |-> "none", pc |-> "idle", ch |-> -1, late |-> FALSE]

NoSel == [kind |-> "none", ch |-> -1]

\* process() is not inside the loop of its CapabilityResponse case.
NoWalk == [body |-> <<>>, i |-> 0, bits |-> {}, n |-> 0]

\* New(): pinStateChan is an empty map, i2cChan a fresh channel (0); the
\* Error field is not set and keeps its zero value, a nil channel.
SinkInit ==
  /\ last = NoLast
  /\ pinStateChan = -1
  /\ i2cChan = 0
  /\ qry = [t \in Tasks |-> NoQuery]
  /\ sel = NoSel
  /\ pending = <<>>
  /\ Error = 0
  /\ errPc = "idle"
  /\ capWalk = NoWalk

\* New(): the state after construction; no Connect call has been made.
Init ==
  /\ connected = FALSE
  /\ connection = 0
  /\ pins = <<>>
  /\ analogPins = <<>>
  /\ protocolVersion = <<>>
  /\ firmwareName = <<>>
  /\ boolChan = [n \in {QNames[q] : q \in 1..4} |-> 0]
  /\ pinReportChan = <<>>
  /\ wire = [c \in Calls |-> <<>>]
  /\ boardPos = [c \in Calls |-> 0]
  /\ inbound = [c \in Calls |-> <<>>]
  /\ closed = [c \in Calls |-> FALSE]
  /\ closedRead = [c \in Calls |-> "open"]
  /\ mainPc = [k \in Calls |-> "idle"]
  /\ mainRet = [k \in Calls |-> "none"]
  /\ hs = [k \in Calls |-> [step |-> "off", q |-> 0, s |-> FALSE]]
  /\ srvPc = [k \in Calls |-> "off"]
  /\ discPc = "idle"
  /\ discLeft = MaxDisconnects
  /\ writeFailsLeft = MaxWriteFails
  /\ readErrsLeft = MaxReadErrs
  /\ apiLeft = 0
  /\ apiCall = NoCall
  /\ panicked = FALSE
  /\ acked = [k \in Calls |-> {}]
  /\ SinkInit

(***************************************************************************)
(* The transport.                                                          *)
(***************************************************************************)
\* connection.Write(data) by caller `by`: with ok the frame goes on the wire;
\* without, the write fails (always on a closed transport, else by injection).
write(by, data, ok) ==
  IF ok
  THEN /\ ~closed[connection]
       /\ wire' = [wire EXCEPT ![connection] = Append(@, [by |-> by, data |-> data])]
       /\ UNCHANGED writeFailsLeft
  ELSE /\ \/ closed[connection] /\ UNCHANGED writeFailsLeft
          \/ ~closed[connection] /\ writeFailsLeft > 0
             /\ writeFailsLeft' = writeFailsLeft - 1
       /\ UNCHANGED wire

\* The board reads the next frame written to transport c and answers it.
BoardStep(c) ==
  /\ ~panicked
  /\ ~closed[c]
  /\ boardPos[c] < Len(wire[c])
  /\ boardPos' = [boardPos EXCEPT ![c] = @ + 1]
  /\ inbound' = [inbound EXCEPT ![c] = @ \o BoardAnswer(wire[c][boardPos[c] + 1].data)]
  /\ UNCHANGED <<connected, connection, clientVars, boolChan, pinReportChan, wire,
                 closed, closedRead, taskVars, discPc, discLeft, writeFailsLeft,
                 readErrsLeft, apiLeft, apiCall, panicked, acked>>
  /\ UNCHANGED sinkVars

(***************************************************************************)
(* process(): one call reads one frame from the installed transport and    *)
(* dispatches it.  The caller (Connect's loop or a serving goroutine)      *)
(* moves its own position.                                                 *)
(***************************************************************************)
Image ==
  [pins |-> pins, analogPins |-> analogPins,
   protocolVersion |-> protocolVersion, firmwareName |-> firmwareName]

\* The goroutine blocked in <-s on the channel now stored under `name`: the
\* only receiver a non-blocking send on boolChan[name] can reach.
Receiver(name) ==
  {k \in Calls : /\ hs[k].step = "recv"
                 /\ hs[k].s
                 /\ hs[k].q = QIndex(name)
                 /\ boolChan[name] = k}

\* The goroutine after <-s returned: the next query, or the report toggles.
AfterRecv(h) ==
  IF h.q < 4 THEN [step |-> "write", q |-> h.q + 1, s |-> FALSE]
             ELSE [step |-> "rd0", q |-> 4, s |-> FALSE]

\* The goroutine of call k has written query q to the transport.
HasWritten(k, q) ==
  \/ hs[k].q > q
  \/ hs[k].q = q /\ hs[k].step \in {"make", "rd0", "rd1", "done"}
  \/ hs[k].q = q /\ hs[k].step \in {"set", "recv"} /\ hs[k].s

\* select { case b.boolChan[name] <- true: default: } for every signal of emit.
Signal(emit) ==
  LET names == {emit[i].name : i \in {j \in 1..Len(emit) : emit[j].kind = "bool"}}
  IN /\ hs' = [k \in Calls |->
                 IF \E n \in names : k \in Receiver(n) THEN AfterRecv(hs[k]) ELSE hs[k]]
     /\ acked' = [k \in Calls |->
                 acked[k] \cup {QIndex(n) : n \in {x \in names : HasWritten(k, QIndex(x))}}]

\* A read on the installed transport can return a whole frame.
CanRead == ~closed[connection] /\ FrameReady(inbound[connection])

\* process() returning nil: the frame is consumed and dispatched.
processFrame ==
  LET stream == inbound[connection]
      n == FrameLen(stream)
      r == Dispatch(Image, SubSeq(stream, 1, n))
  IN /\ inbound' = [inbound EXCEPT ![connection] = SubSeq(stream, n + 1, Len(stream))]
     /\ pins' = r.pins
     /\ analogPins' = r.analogPins
     /\ protocolVersion' = r.protocolVersion
     /\ firmwareName' = r.firmwareName
     /\ panicked' = r.panic
     /\ IF r.panic THEN UNCHANGED <<hs, acked>> ELSE Signal(r.emit)

\* process() returning the error of a failed read: a closed transport that
\* reports an error, or an injected failure of an open one.
readError ==
  \/ closed[connection] /\ closedRead[connection] = "err" /\ UNCHANGED readErrsLeft
  \/ ~closed[connection] /\ readErrsLeft > 0 /\ readErrsLeft' = readErrsLeft - 1

\* read() got EOF or no bytes: the loop goes round again (after 5 ms on EOF).
\* A closed transport can report EOF for ever; an open one that has no whole
\* frame yet returns what it has, and the loop keeps asking for the rest.
readEOF ==
  \/ closed[connection] /\ closedRead[connection] = "eof"
  \/ ~closed[connection] /\ ~FrameReady(inbound[connection])

(***************************************************************************)
(* The application calls Connect, Disconnect and the Request API from one  *)
(* thread: a call starts when the previous one has returned, and after a   *)
(* Connect that returned a transport error it does not call Connect on the *)
(* instance again.  The goroutines Connect starts run beside it.           *)
(***************************************************************************)
AppBusy ==
  \/ discPc # "idle"
  \/ \E k \in Calls : mainPc[k] \notin {"idle", "returned"}

\* The Connect calls that went on to the handshake.
Accepted == {k \in Calls : mainPc[k] # "idle" /\ mainRet[k] # "ErrConnected"}

(***************************************************************************)
(* Connect (lines 146-192): the caller.                                    *)
(***************************************************************************)
\* A variant of ConnectEnter that installs the transport before it looks at
\* the connected flag.
ConnectEnter_InstallFirst(k) ==
  /\ ~panicked
  /\ ~AppBusy
  /\ mainPc[k] = "idle"
  /\ k > 1 => mainRet[k - 1] \in {"nil", "ErrConnected"}
  /\ connection' = k
  /\ IF connected
     THEN /\ mainPc' = [mainPc EXCEPT ![k] = "returned"]
          /\ mainRet' = [mainRet EXCEPT ![k] = "ErrConnected"]
     ELSE /\ Cardinality(Accepted) < MaxConnects
          /\ mainPc' = [mainPc EXCEPT ![k] = "reset"]
          /\ UNCHANGED mainRet
  /\ UNCHANGED <<connected, clientVars, boolChan, pinReportChan, wire, boardPos,
                 inbound, closed, closedRead, hs, srvPc, discPc, discLeft,
                 writeFailsLeft, readErrsLeft, apiLeft, apiCall, panicked, acked>>
  /\ UNCHANGED sinkVars

ConnectEnter(k) ==
  /\ ~panicked
  /\ ~AppBusy
  /\ mainPc[k] = "idle"
  /\ k > 1 => mainRet[k - 1] \in {"nil", "ErrConnected"}
  /\ IF connected
     THEN /\ mainPc' = [mainPc EXCEPT ![k] = "returned"]
          /\ mainRet' = [mainRet EXCEPT ![k] = "ErrConnected"]
          /\ UNCHANGED connection
     ELSE /\ Cardinality(Accepted) < MaxConnects
          /\ connection' = k
          /\ mainPc' = [mainPc EXCEPT ![k] = "reset"]
          /\ UNCHANGED mainRet
  /\ UNCHANGED <<connected, clientVars, boolChan, pinReportChan, wire, boardPos,
                 inbound, closed, closedRead, hs, srvPc, discPc, discLeft,
                 writeFailsLeft, readErrsLeft, apiLeft, apiCall, panicked, acked>>
  /\ UNCHANGED sinkVars

\* c.Reset(), then go func() { ... }
ConnectReset(k) ==
  /\ ~panicked
  /\ mainPc[k] = "reset"
  /\ \E ok \in BOOLEAN :
       /\ write(k, ResetFrame, ok)
       /\ IF ok
          THEN /\ mainPc' = [mainPc EXCEPT ![k] = "process"]
               /\ hs' = [hs EXCEPT ![k] = [step |-> "write", q |-> 1, s |-> FALSE]]
               /\ UNCHANGED mainRet
          ELSE /\ mainPc' = [mainPc EXCEPT ![k] = "returned"]
               /\ mainRet' = [mainRet EXCEPT ![k] = "werr"]
               /\ UNCHANGED hs
  /\ UNCHANGED <<connected, connection, clientVars, boolChan, pinReportChan,
                 boardPos, inbound, closed, closedRead, srvPc, discPc, discLeft,
                 readErrsLeft, apiLeft, apiCall, panicked, acked>>
  /\ UNCHANGED sinkVars

\* c.process() of the loop returns nil.
ConnectProcess(k) ==
  /\ ~panicked
  /\ mainPc[k] = "process"
  /\ CanRead
  /\ processFrame
  /\ mainPc' = [mainPc EXCEPT ![k] = "check"]
  /\ UNCHANGED <<connected, connection, boolChan, pinReportChan, wire, boardPos,
                 closed, closedRead, mainRet, srvPc, discPc, discLeft,
                 writeFailsLeft, readErrsLeft, apiLeft, apiCall>>
  /\ UNCHANGED sinkVars

\* c.process() of the loop returns an error: Connect returns it.
ConnectReadError(k) ==
  /\ ~panicked
  /\ mainPc[k] = "process"
  /\ readError
  /\ mainPc' = [mainPc EXCEPT ![k] = "returned"]
  /\ mainRet' = [mainRet EXCEPT ![k] = "rerr"]
  /\ UNCHANGED <<connected, connection, clientVars, boolChan, pinReportChan, wire,
                 boardPos, inbound, closed, closedRead, hs, srvPc, discPc, discLeft,
                 writeFailsLeft, apiLeft, apiCall, panicked, acked>>
  /\ UNCHANGED sinkVars

\* read() inside the loop's process() got EOF: sleep 5 ms, then read again.
ConnectReadEOF(k) ==
  /\ ~panicked
  /\ \/ mainPc[k] = "process" /\ readEOF /\ mainPc' = [mainPc EXCEPT ![k] = "sleep"]
     \/ mainPc[k] = "sleep" /\ mainPc' = [mainPc EXCEPT ![k] = "process"]
  /\ UNCHANGED <<connected, connection, clientVars, boolChan, pinReportChan, wire,
                 boardPos, inbound, closed, closedRead, mainRet, hs, srvPc, discPc,
                 discLeft, writeFailsLeft, readErrsLeft, apiLeft, apiCall, panicked,
                 acked>>
  /\ UNCHANGED sinkVars

\* if c.connected { go func() { ... }(); break }; return
ConnectCheck(k) ==
  /\ ~panicked
  /\ mainPc[k] = "check"
  /\ IF connected
     THEN /\ srvPc' = [srvPc EXCEPT ![k] = "check"]
          /\ mainPc' = [mainPc EXCEPT ![k] = "returned"]
          /\ mainRet' = [mainRet EXCEPT ![k] = "nil"]
     ELSE /\ mainPc' = [mainPc EXCEPT ![k] = "process"]
          /\ UNCHANGED <<srvPc, mainRet>>
  /\ UNCHANGED <<connected, connection, clientVars, boolChan, pinReportChan, wire,
                 boardPos, inbound, closed, closedRead, hs, discPc, discLeft,
                 writeFailsLeft, readErrsLeft, apiLeft, apiCall, panicked, acked>>
  /\ UNCHANGED sinkVars

(***************************************************************************)
(* The handshake goroutine of Connect (lines 156-168).  Its record holds   *)
(* step, the query q (1..4) it is at, and s: TRUE when its local s is the  *)
(* channel it made for query q, FALSE when s is nil or not yet assigned.   *)
(***************************************************************************)
\* The position after the query function returned: <-s, except that after
\* AnalogMappingQuery the goroutine first sets connected (line 164).
AfterQuery(q) == IF q = 4 THEN "set" ELSE "recv"

\* b.write / b.writeSysex of the query function; on an error it returns a
\* nil channel, and the goroutine drops the error.
HsWrite(k) ==
  /\ ~panicked
  /\ hs[k].step = "write"
  /\ \E ok \in BOOLEAN :
       /\ write(k, QueryFrame(hs[k].q), ok)
       /\ hs' = [hs EXCEPT ![k].step = IF ok THEN "make" ELSE AfterQuery(hs[k].q),
                           ![k].s = FALSE]
  /\ UNCHANGED <<connected, connection, clientVars, boolChan, pinReportChan,
                 boardPos, inbound, closed, closedRead, mainPc, mainRet, srvPc,
                 discPc, discLeft, readErrsLeft, apiLeft, apiCall, panicked, acked>>
  /\ UNCHANGED sinkVars

\* A variant of HsMake whose goroutine does not wait on the channel it made:
\* it goes straight on to the next query.
HsMake_NoWait(k) ==
  /\ ~panicked
  /\ hs[k].step = "make"
  /\ boolChan' = [boolChan EXCEPT ![QNames[hs[k].q]] = k]
  /\ hs' = [hs EXCEPT ![k] = IF hs[k].q < 4
                               THEN [step |-> "write", q |-> hs[k].q + 1, s |-> FALSE]
                               ELSE [step |-> "set", q |-> 4, s |-> TRUE]]
  /\ UNCHANGED <<connected, connection, clientVars, pinReportChan, wire, boardPos,
                 inbound, closed, closedRead, mainPc, mainRet, srvPc, discPc,
                 discLeft, writeFailsLeft, readErrsLeft, apiLeft, apiCall, panicked,
                 acked>>
  /\ UNCHANGED sinkVars

\* b.boolChan[name] = make(chan bool); return b.boolChan[name], nil
HsMake(k) ==
  /\ ~panicked
  /\ hs[k].step = "make"
  /\ boolChan' = [boolChan EXCEPT ![QNames[hs[k].q]] = k]
  /\ hs' = [hs EXCEPT ![k].step = AfterQuery(hs[k].q), ![k].s = TRUE]
  /\ UNCHANGED <<connected, connection, clientVars, pinReportChan, wire, boardPos,
                 inbound, closed, closedRead, mainPc, mainRet, srvPc, discPc,
                 discLeft, writeFailsLeft, readErrsLeft, apiLeft, apiCall, panicked,
                 acked>>
  /\ UNCHANGED sinkVars

\* c.connected = true (line 164)
HsSetConnected(k) ==
  /\ ~panicked
  /\ hs[k].step = "set"
  /\ connected' = TRUE
  /\ hs' = [hs EXCEPT ![k].step = "recv"]
  /\ UNCHANGED <<connection, clientVars, boolChan, pinReportChan, wire, boardPos,
                 inbound, closed, closedRead, mainPc, mainRet, srvPc, discPc,
                 discLeft, writeFailsLeft, readErrsLeft, apiLeft, apiCall, panicked,
                 acked>>
  /\ UNCHANGED sinkVars

\* c.ReportDigital(0, 1); c.ReportDigital(1, 1): togglePinReporting writes the
\* frame and, when the write succeeded, makes the pin's report channel.
HsReportDigital(k) ==
  /\ ~panicked
  /\ hs[k].step \in {"rd0", "rd1"}
  /\ LET pin == IF hs[k].step = "rd0" THEN 0 ELSE 1
     IN \E ok \in BOOLEAN :
          /\ write(k, ToggleFrame(pin, 1, ReportDigital), ok)
          /\ pinReportChan' =
               IF ok
               THEN [p \in DOMAIN pinReportChan \cup {pin + 1} |->
                       IF p = pin + 1 THEN k ELSE pinReportChan[p]]
               ELSE pinReportChan
  /\ hs' = [hs EXCEPT ![k].step = IF hs[k].step = "rd0" THEN "rd1" ELSE "done"]
  /\ UNCHANGED <<connected, connection, clientVars, boolChan, boardPos, inbound,
                 closed, closedRead, mainPc, mainRet, srvPc, discPc, discLeft,
                 readErrsLeft, apiLeft, apiCall, panicked, acked>>
  /\ UNCHANGED sinkVars

(***************************************************************************)
(* The serving goroutine (lines 175-187).                                  *)
(***************************************************************************)
\* if !c.connected { break }
ServeCheck(k) ==
  /\ ~panicked
  /\ srvPc[k] = "check"
  /\ srvPc' = [srvPc EXCEPT ![k] = IF connected THEN "process" ELSE "done"]
  /\ UNCHANGED <<connected, connection, clientVars, boolChan, pinReportChan, wire,
                 boardPos, inbound, closed, closedRead, mainPc, mainRet, hs, discPc,
                 discLeft, writeFailsLeft, readErrsLeft, apiLeft, apiCall, panicked,
                 acked>>
  /\ UNCHANGED sinkVars

ServeProcess(k) ==
  /\ ~panicked
  /\ srvPc[k] = "process"
  /\ CanRead
  /\ processFrame
  /\ srvPc' = [srvPc EXCEPT ![k] = "check"]
  /\ UNCHANGED <<connected, connection, boolChan, pinReportChan, wire, boardPos,
                 closed, closedRead, mainPc, mainRet, discPc, discLeft,
                 writeFailsLeft, readErrsLeft, apiLeft, apiCall>>
  /\ UNCHANGED sinkVars

\* process() returned an error: select { case c.Error <- err: default: }.
\* The send goes through when a goroutine is blocked receiving on the
\* channel stored in c.Error; a send on a nil channel is never ready, so
\* the select takes its default.  Either way the loop goes on.
ServeReadError(k) ==
  /\ ~panicked
  /\ srvPc[k] = "process"
  /\ readError
  /\ errPc' = IF Error # 0 /\ errPc = "recv" THEN "got" ELSE errPc
  /\ srvPc' = [srvPc EXCEPT ![k] = "check"]
  /\ UNCHANGED <<connected, connection, clientVars, boolChan, pinReportChan, wire,
                 boardPos, inbound, closed, closedRead, mainPc, mainRet, hs, discPc,
                 discLeft, writeFailsLeft, apiLeft, apiCall, panicked, acked>>
  /\ UNCHANGED <<last, pinStateChan, i2cChan, qry, sel, pending, Error, capWalk>>

ServeReadEOF(k) ==
  /\ ~panicked
  /\ \/ srvPc[k] = "process" /\ readEOF /\ srvPc' = [srvPc EXCEPT ![k] = "sleep"]
     \/ srvPc[k] = "sleep" /\ srvPc' = [srvPc EXCEPT ![k] = "process"]
  /\ UNCHANGED <<connected, connection, clientVars, boolChan, pinReportChan, wire,
                 boardPos, inbound, closed, closedRead, mainPc, mainRet, hs, discPc,
                 discLeft, writeFailsLeft, readErrsLeft, apiLeft, apiCall, panicked,
                 acked>>
  /\ UNCHANGED sinkVars

(***************************************************************************)
(* Disconnect (lines 118-121).                                             *)
(***************************************************************************)
\* b.connected = false
DisconnectCall ==
  /\ ~panicked
  /\ ~AppBusy
  /\ discLeft > 0
  /\ discLeft' = discLeft - 1
  /\ connected' = FALSE
  /\ discPc' = "close"
  /\ UNCHANGED <<connection, clientVars, boolChan, pinReportChan, wire, boardPos,
                 inbound, closed, closedRead, taskVars, writeFailsLeft, readErrsLeft,
                 apiLeft, apiCall, panicked, acked>>
  /\ UNCHANGED sinkVars

\* return b.connection.Close(): a nil connection is a nil dereference.
DisconnectClose ==
  /\ ~panicked
  /\ discPc = "close"
  /\ discPc' = "idle"
  /\ IF connection = 0
     THEN panicked' = TRUE /\ UNCHANGED <<closed, closedRead>>
     ELSE /\ closed' = [closed EXCEPT ![connection] = TRUE]
          /\ \E r \in {"err", "eof"} :
               closedRead' = [closedRead EXCEPT ![connection] =
                                IF closed[connection] THEN @ ELSE r]
          /\ UNCHANGED panicked
  /\ UNCHANGED <<connected, connection, clientVars, boolChan, pinReportChan, wire,
                 boardPos, inbound, taskVars, discLeft, writeFailsLeft,
                 readErrsLeft, apiLeft, apiCall, acked>>
  /\ UNCHANGED sinkVars

(***************************************************************************)
(* Request API.                                                            *)
(***************************************************************************)
\* The pin table after b.pins[byte(pin)].Mode = mode.
WithMode(pin, mode) == [pins EXCEPT ![ToByte(pin) + 1].Mode = mode]

\* SetPinMode (lines 200-206) on an existing pin.
SetPinMode(pin, mode) ==
  /\ ~panicked
  /\ apiLeft > 0
  /\ pin < Len(pins)
  /\ apiLeft' = apiLeft - 1
  /\ \E ok \in BOOLEAN :
       /\ write(0, SetPinModeFrame(pin, mode), ok)
       /\ pins' = IF ok THEN WithMode(pin, mode) ELSE pins
       /\ apiCall' = [op |-> "SetPinMode", pin |-> pin, mode |-> mode, value |-> -1,
                      ret |-> IF ok THEN "nil" ELSE "werr"]
  /\ UNCHANGED <<connected, connection, analogPins, protocolVersion, firmwareName,
                 boolChan, pinReportChan, boardPos, inbound, closed, closedRead,
                 taskVars, discPc, discLeft, readErrsLeft, panicked, acked>>
  /\ UNCHANGED sinkVars

RECURSIVE PortWalk(_, _, _, _)
\* The loop of DigitalWrite over the eight pins of a port that all exist:
\* portValue gets bit i when pin 8*port+i has a non-zero value.
PortWalk(table, port, i, portValue) ==
  IF i >= 8 THEN portValue
  ELSE PortWalk(table, port, i + 1,
         IF table[ToByte(8 * port + i) + 1].Value # 0
         THEN BitOr(portValue, 2 ^ i) ELSE portValue)

\* DigitalWrite (lines 209-221) on an existing pin: the value is stored,
\* then the port's pins are read, then the frame is written.  Reading
\* b.pins[8*port+i] past the end of the table is a run-time panic.
DigitalWrite(pin, value) ==
  /\ ~panicked
  /\ apiLeft > 0
  /\ pin < Len(pins)
  /\ apiLeft' = apiLeft - 1
  /\ LET port == ToByte(pin \div 8)
         table == [pins EXCEPT ![pin + 1].Value = value]
         portValue == PortWalk(table, port, 0, 0)
     IN /\ pins' = table
        /\ IF \E i \in 0..7 : ToByte(8 * port + i) >= Len(table)
           THEN /\ panicked' = TRUE
                /\ apiCall' = [op |-> "DigitalWrite", pin |-> pin, mode |-> -1,
                               value |-> value, ret |-> "panic"]
                /\ UNCHANGED <<wire, writeFailsLeft>>
           ELSE /\ \E ok \in BOOLEAN :
                     /\ write(0, <<BitOr(DigitalMessage, port), portValue % 128,
                                   (portValue \div 128) % 128>>, ok)
                     /\ apiCall' = [op |-> "DigitalWrite", pin |-> pin, mode |-> -1,
                                    value |-> value,
                                    ret |-> IF ok THEN "nil" ELSE "werr"]
                /\ UNCHANGED panicked
  /\ UNCHANGED <<connected, connection, analogPins, protocolVersion, firmwareName,
                 boolChan, pinReportChan, boardPos, inbound, closed, closedRead,
                 taskVars, discPc, discLeft, readErrsLeft, acked>>
  /\ UNCHANGED sinkVars

\* AnalogWrite (lines 237-247) on an existing pin: the frame is written,
\* then the value stored.
AnalogWrite(pin, value) ==
  /\ ~panicked
  /\ apiLeft > 0
  /\ pin < Len(pins)
  /\ apiLeft' = apiLeft - 1
  /\ \E ok \in BOOLEAN :
       /\ write(0, <<BitOr(AnalogMessage, ToByte(pin)), ToByte(value % 128),
                     ToByte((value \div 128) % 128)>>, ok)
       /\ pins' = IF ok THEN [pins EXCEPT ![pin + 1].Value = value] ELSE pins
       /\ apiCall' = [op |-> "AnalogWrite", pin |-> pin, mode |-> -1, value |-> value,
                      ret |-> IF ok THEN "nil" ELSE "werr"]
  /\ UNCHANGED <<connected, connection, analogPins, protocolVersion, firmwareName,
                 boolChan, pinReportChan, boardPos, inbound, closed, closedRead,
                 taskVars, discPc, discLeft, readErrsLeft, panicked, acked>>
  /\ UNCHANGED sinkVars

(***************************************************************************)
(* The specification.                                                      *)
(***************************************************************************)
Modes == {Input, Output, Analog, Pwm, Servo}

\* The steps the program takes by itself once started.
ConnectStep(k) ==
  \/ ConnectReset(k) \/ ConnectProcess(k) \/ ConnectReadEOF(k) \/ ConnectCheck(k)
  \/ ConnectReadError(k) /\ closed[connection]

HsStep(k) == HsWrite(k) \/ HsMake(k) \/ HsSetConnected(k) \/ HsReportDigital(k)

ServeStep(k) ==
  \/ ServeCheck(k) \/ ServeProcess(k) \/ ServeReadEOF(k)
  \/ ServeReadError(k) /\ closed[connection]

Next ==
  \/ \E k \in Calls : ConnectEnter(k)
  \/ \E k \in Calls : ConnectReset(k)
  \/ \E k \in Calls : ConnectProcess(k)
  \/ \E k \in Calls : ConnectReadError(k)
  \/ \E k \in Calls : ConnectReadEOF(k)
  \/ \E k \in Calls : ConnectCheck(k)
  \/ \E k \in Calls : HsWrite(k)
  \/ \E k \in Calls : HsMake(k)
  \/ \E k \in Calls : HsSetConnected(k)
  \/ \E k \in Calls : HsReportDigital(k)
  \/ \E k \in Calls : ServeCheck(k)
  \/ \E k \in Calls : ServeProcess(k)
  \/ \E k \in Calls : ServeReadError(k)
  \/ \E k \in Calls : ServeReadEOF(k)
  \/ \E c \in Calls : BoardStep(c)
  \/ DisconnectCall
  \/ DisconnectClose

Spec == Init /\ [][Next]_vars

\* Every started task keeps being scheduled, the board keeps answering and a
\* Disconnect that was entered goes on to Close.  Calls made by the
\* application and injected transport failures are not forced.
Fairness ==
  /\ \A k \in Calls : WF_vars(ConnectStep(k))
  /\ \A k \in Calls : WF_vars(HsStep(k))
  /\ \A k \in Calls : WF_vars(ServeStep(k))
  /\ \A c \in Calls : WF_vars(BoardStep(c))
  /\ WF_vars(DisconnectClose)

FairSpec == Spec /\ Fairness

(***************************************************************************)
(* The Request API on a connected client.  ApiInit is the client as the    *)
(* handshake with the board leaves it: Connect call 1 has returned nil,    *)
(* its goroutine has finished and its serving goroutine is waiting for     *)
(* input.  The application then makes Request API calls.                   *)
(***************************************************************************)
RECURSIVE DispatchAll(_, _)
\* The client image after dispatching the frames of a list in order.
DispatchAll(m, frames) ==
  IF frames = <<>> THEN m
  ELSE LET r == Dispatch(m, Head(frames))
       IN DispatchAll([pins |-> r.pins, analogPins |-> r.analogPins,
                       protocolVersion |-> r.protocolVersion,
                       firmwareName |-> r.firmwareName], Tail(frames))

HandshakeImage ==
  DispatchAll([pins |-> <<>>, analogPins |-> <<>>, protocolVersion |-> <<>>,
               firmwareName |-> <<>>],
              <<ProtocolResponse, FirmwareResponse, CapabilitiesResponse,
                AnalogMappingResponseFrame>>)

ApiInit ==
  /\ connected = TRUE
  /\ connection = 1
  /\ pins = HandshakeImage.pins
  /\ analogPins = HandshakeImage.analogPins
  /\ protocolVersion = HandshakeImage.protocolVersion
  /\ firmwareName = HandshakeImage.firmwareName
  /\ boolChan = [n \in {QNames[q] : q \in 1..4} |-> 1]
  /\ pinReportChan = <<1, 1>>
  /\ wire = [c \in Calls |->
              IF c = 1
              THEN <<[by |-> 1, data |-> ResetFrame],
                     [by |-> 1, data |-> ProtocolVersionQueryFrame],
                     [by |-> 1, data |-> FirmwareQueryFrame],
                     [by |-> 1, data |-> CapabilityQueryFrame],
                     [by |-> 1, data |-> AnalogMappingQueryFrame],
                     [by |-> 1, data |-> ToggleFrame(0, 1, ReportDigital)],
                     [by |-> 1, data |-> ToggleFrame(1, 1, ReportDigital)]>>
              ELSE <<>>]
  /\ boardPos = [c \in Calls |-> IF c = 1 THEN 7 ELSE 0]
  /\ inbound = [c \in Calls |-> <<>>]
  /\ closed = [c \in Calls |-> FALSE]
  /\ closedRead = [c \in Calls |-> "open"]
  /\ mainPc = [k \in Calls |-> IF k = 1 THEN "returned" ELSE "idle"]
  /\ mainRet = [k \in Calls |-> IF k = 1 THEN "nil" ELSE "none"]
  /\ hs = [k \in Calls |-> IF k = 1 THEN [step |-> "done", q |-> 4, s |-> FALSE]
                                     ELSE [step |-> "off", q |-> 0, s |-> FALSE]]
  /\ srvPc = [k \in Calls |-> IF k = 1 THEN "process" ELSE "off"]
  /\ discPc = "idle"
  /\ discLeft = MaxDisconnects
  /\ writeFailsLeft = MaxWriteFails
  /\ readErrsLeft = MaxReadErrs
  /\ apiLeft = MaxApiCalls
  /\ apiCall = NoCall
  /\ panicked = FALSE
  /\ acked = [k \in Calls |-> IF k = 1 THEN {1, 2, 3, 4} ELSE {}]
  /\ SinkInit

ApiNext ==
  \E pin \in 0..(Len(pins) - 1), mode \in Modes : SetPinMode(pin, mode)

ApiSpec == ApiInit /\ [][ApiNext]_vars

(***************************************************************************)
(* Observations used by the properties.                                    *)
(***************************************************************************)
RECURSIVE WireUpTo(_)
\* The frames written to transports 1..c.  The installed transport only
\* ever moves to a later one, so this is the order of writing.
WireUpTo(c) == IF c = 0 THEN <<>> ELSE WireUpTo(c - 1) \o wire[c]

\* The frames written by the tasks of Connect call k, in order.
FramesBy(k) ==
  LET mine == SelectSeq(WireUpTo(MaxConnects + 1), LAMBDA e : e.by = k)
  IN [i \in 1..Len(mine) |-> mine[i].data]

Wrote(k, frame) == \E i \in 1..Len(FramesBy(k)) : FramesBy(k)[i] = frame

ReportDigital0 == ToggleFrame(0, 1, ReportDigital)

ReportDigital1 == ToggleFrame(1, 1, ReportDigital)

HandshakeFrames ==
  <<ResetFrame, ProtocolVersionQueryFrame, FirmwareQueryFrame, CapabilityQueryFrame,
    AnalogMappingQueryFrame, ReportDigital0, ReportDigital1>>

IsPrefix(a, b) == Len(a) <= Len(b) /\ a = SubSeq(b, 1, Len(a))

\* A Disconnect call has set connected to false.
DisconnectHappened == discLeft < MaxDisconnects

\* No transport failure was injected, Disconnect was not called.
Undisturbed ==
  /\ writeFailsLeft = MaxWriteFails
  /\ readErrsLeft = MaxReadErrs
  /\ discLeft = MaxDisconnects

(***************************************************************************)
(* C1 (as claimed): whenever connected is true, the dispatcher has already *)
(* processed, within the current Connect call, the responses to all four   *)
(* handshake queries.  The code sets connected right after writing         *)
(* AnalogMappingQuery (line 164), before the response is awaited.          *)
(***************************************************************************)
C1_ConnectedOnlyAfterHandshake ==
  connected => connection # 0 /\ acked[connection] = {1, 2, 3, 4}

(***************************************************************************)
(* C2: the frames Connect call k writes are Reset, ProtocolVersionQuery,   *)
(* FirmwareQuery, CapabilityQuery, AnalogMappingQuery, ReportDigital(0,1), *)
(* ReportDigital(1,1) in exactly this order (ReportDigital(0,1) missing    *)
(* only when its write failed), and each query after the first, and the    *)
(* report toggles, are on the wire only once the dispatcher has processed  *)
(* the response to the preceding query.                                    *)
(***************************************************************************)
C2_HandshakeOrder ==
  \A k \in Calls :
    LET f == FramesBy(k)
    IN /\ \/ IsPrefix(f, HandshakeFrames)
          \/ f = SubSeq(HandshakeFrames, 1, 5) \o <<ReportDigital1>>
       /\ \A i \in 1..Len(f) :
            /\ \A q \in 2..4 : f[i] = QueryFrame(q) => (q - 1) \in acked[k]
            /\ f[i] \in {ReportDigital0, ReportDigital1} => 4 \in acked[k]

\* A Connect call has written all seven frames.
C2_Witness == \E k \in Calls : FramesBy(k) = HandshakeFrames

(***************************************************************************)
(* C3 (as claimed): when no write fails, no read fails and Disconnect is   *)
(* not called, a Connect that was entered eventually returns nil with      *)
(* connected true.  A response dispatched before the goroutine waits on    *)
(* the channel it made is dropped, and the goroutine then waits forever.   *)
(***************************************************************************)
C3_ConnectCompletes ==
  ([]Undisturbed) =>
     \A k \in Calls :
       (mainPc[k] = "reset") ~> (connected /\ mainRet[k] = "nil")

(***************************************************************************)
(* C4 (as claimed): once Disconnect has set connected to false, connected  *)
(* is false in every later state.                                          *)
(***************************************************************************)
C4_StaysDisconnected ==
  [][DisconnectHappened /\ ~connected => ~connected']_vars

(***************************************************************************)
(* C5: a Connect call made while connected is true returns ErrConnected    *)
(* and changes nothing else: nothing is written, the installed transport   *)
(* stays, no goroutine is started.                                         *)
(***************************************************************************)
C5_ConnectWhenConnected ==
  [][\A k \in Calls :
       (connected /\ mainPc[k] = "idle" /\ mainPc'[k] # "idle") =>
          /\ mainPc'[k] = "returned"
          /\ mainRet'[k] = "ErrConnected"
          /\ UNCHANGED <<connected, connection, clientVars, boolChan, pinReportChan,
                         wire, boardPos, inbound, closed, closedRead, hs, srvPc,
                         panicked, acked>>]_vars

\* A Connect call was rejected while an earlier one holds the connection.
C5_Witness ==
  \E k \in Calls : mainRet[k] = "ErrConnected" /\ connection # 0 /\ connection # k

(***************************************************************************)
(* C6 (as claimed): when Connect has returned a read error, connected is   *)
(* false, then and afterwards.                                             *)
(***************************************************************************)
C6_ReadErrorLeavesDisconnected ==
  \A k \in Calls : mainRet[k] = "rerr" => ~connected

(***************************************************************************)
(* C7 (as claimed): when the write of a handshake query fails, Connect     *)
(* eventually returns an error to its caller.                              *)
(***************************************************************************)
QueryWriteFailed(k) == hs[k].step \in {"set", "recv"} /\ ~hs[k].s

C7_QueryWriteFailureAborts ==
  \A k \in Calls :
    QueryWriteFailed(k) ~> (mainPc[k] = "returned" /\ mainRet[k] \in {"werr", "rerr"})

(***************************************************************************)
(* C8 (as claimed): after Disconnect is called while the serving task      *)
(* runs, the serving task eventually terminates, whether reads on the      *)
(* closed transport return an error or EOF.                                *)
(***************************************************************************)
C8_ServingStops ==
  \A k \in Calls :
    (discPc = "close" /\ srvPc[k] \in {"check", "process", "sleep"})
       ~> (srvPc[k] = "done")

(***************************************************************************)
(* C9 (as claimed): whenever connected is true, the current Connect has    *)
(* already written ReportDigital(0,1) and ReportDigital(1,1).              *)
(***************************************************************************)
C9_ReportingBeforeConnected ==
  connected =>
    /\ connection # 0
    /\ Wrote(connection, ReportDigital0)
    /\ Wrote(connection, ReportDigital1)

(***************************************************************************)
(* C10 (as claimed): SetPinMode(p, m) with m not among the supported modes *)
(* of pin p returns an error, writes nothing and leaves the pin's mode     *)
(* unchanged.                                                              *)
(***************************************************************************)
Supports(pin, mode) ==
  \E i \in 1..Len(pins[pin + 1].SupportedModes) : pins[pin + 1].SupportedModes[i] = mode

C10_UnsupportedModeRejected ==
  [][(apiLeft' < apiLeft /\ ~Supports(apiCall'.pin, apiCall'.mode)) =>
       /\ apiCall'.ret = "ErrUnsupportedMode"
       /\ wire' = wire
       /\ pins' = pins]_vars


(***************************************************************************)
(* Decoding.  A client whose transport is installed is fed frames by the   *)
(* board and calls process().  Each process() call reads with read(3) and, *)
(* for a sysex, read(1) until EndSysex, then dispatches what it read.      *)
(***************************************************************************)
RECURSIVE ReadLoop(_, _, _, _)
\* The loop of read(length): chunks are the byte counts the transport's
\* Read calls return, data the bytes they deliver.  Each round allocates
\* tmp of the remaining length and, when bytes came, appends all of tmp.
ReadLoop(data, length, chunks, buf) ==
  IF length <= 0 \/ chunks = <<>> THEN buf
  ELSE LET i == Head(chunks)
           tmp == SubSeq(data, 1, i) \o [j \in 1..(length - i) |-> 0]
       IN ReadLoop(SubSeq(data, i + 1, Len(data)), length - i, Tail(chunks),
                   IF i > 0 THEN buf \o tmp ELSE buf)

read(data, length, chunks) == ReadLoop(data, length, chunks, <<>>)

\* The ways the transport hands over three bytes: at once, in pieces, or
\* after a read that returned nothing.
Splits == {<<3>>, <<1, 2>>, <<2, 1>>, <<1, 1, 1>>, <<0, 3>>}

\* A pin as the board of the decoding runs has it.
BoardPin(i) ==
  [SupportedModes |-> <<Input, Output>>,
   Mode |-> IF i % 2 = 0 THEN Input ELSE Output,
   Value |-> IF i \in {1, 2} THEN 1 ELSE 0,
   State |-> 0,
   AnalogChannel |-> IF i = 5 THEN 0 ELSE IF i = 6 THEN 1 ELSE IF i < 7 THEN 127 ELSE 0]

\* A client that learned ten pins, mapped pins 5 and 6 to analog channels 0
\* and 1, and had the even pins set to Input.
BoardImage ==
  [pins |-> [i \in 1..10 |-> BoardPin(i - 1)], analogPins |-> <<5, 6>>,
   protocolVersion |-> <<2, ".", 3>>, firmwareName |-> <<65>>]

FreshImage ==
  [pins |-> <<>>, analogPins |-> <<>>, protocolVersion |-> <<>>,
   firmwareName |-> <<>>]

DecodeImages == {FreshImage, BoardImage}

DigitalFrames ==
  {<<DigitalMessage + port, v[1], v[2]>> :
     port \in {0, 1}, v \in {<<5, 0>>, <<127, 3>>}}

AnalogFrames ==
  {<<AnalogMessage, 35, 5>>, <<AnalogMessage + 1, 127, 127>>,
   <<AnalogMessage + 2, 35, 5>>}

CapabilityFrames ==
  {CapabilitiesResponse,
   <<StartSysex, CapabilityResponse, 127, 0, 1, 127, EndSysex>>}

AnalogMappingFrames ==
  {<<StartSysex, AnalogMappingResponse, 127, 0, 1, EndSysex>>,
   <<StartSysex, AnalogMappingResponse, 127, 127, 127, 127, 127, 127, 0, 1, 127,
     2, EndSysex>>}

PinStateFrames ==
  {<<StartSysex, PinStateResponse, 2, 1, 1, EndSysex>>,
   <<StartSysex, PinStateResponse, 2, 0, 5, 3, EndSysex>>,
   <<StartSysex, PinStateResponse, 1, 3, 127, 127, 3, EndSysex>>}

I2cFrames ==
  {<<StartSysex, I2CReply, 9, 0, 0, 0, 24, 1, 1, 0, 26, 1, EndSysex>>,
   <<StartSysex, I2CReply, 9, 2, 1, 3, EndSysex>>,
   <<StartSysex, I2CReply, 9, 2, 1, 3, 24, 1, 5, EndSysex>>}

OtherFrames ==
  {ProtocolResponse, FirmwareResponse, FirmwareQueryFrame, CapabilityQueryFrame,
   writeSysex(<<StringData, 72, 105>>), <<250>>, <<192>>}

\* What the board may send in a decoding run.
FedFrames ==
  DigitalFrames \cup AnalogFrames \cup CapabilityFrames \cup AnalogMappingFrames
    \cup PinStateFrames \cup I2cFrames \cup OtherFrames

DecodeInit ==
  /\ connected = FALSE
  /\ connection = 1
  /\ \E m \in DecodeImages :
       /\ pins = m.pins
       /\ analogPins = m.analogPins
       /\ protocolVersion = m.protocolVersion
       /\ firmwareName = m.firmwareName
  /\ boolChan = [n \in {QNames[q] : q \in 1..4} |-> 0]
  /\ pinReportChan = <<>>
  /\ wire = [c \in Calls |-> <<>>]
  /\ boardPos = [c \in Calls |-> 0]
  /\ inbound = [c \in Calls |-> <<>>]
  /\ closed = [c \in Calls |-> FALSE]
  /\ closedRead = [c \in Calls |-> "open"]
  /\ mainPc = [k \in Calls |-> "idle"]
  /\ mainRet = [k \in Calls |-> "none"]
  /\ hs = [k \in Calls |-> [step |-> "off", q |-> 0, s |-> FALSE]]
  /\ srvPc = [k \in Calls |-> "off"]
  /\ discPc = "idle"
  /\ discLeft = 0
  /\ writeFailsLeft = 0
  /\ readErrsLeft = 0
  /\ apiLeft = 0
  /\ apiCall = NoCall
  /\ panicked = FALSE
  /\ acked = [k \in Calls |-> {}]
  /\ SinkInit

\* The board sends a frame; it waits in the transport until it is read.
DecodeFeed(f) ==
  /\ ~panicked
  /\ last.fed < MaxFed
  /\ inbound' = [inbound EXCEPT ![connection] = @ \o f]
  /\ last' = [last EXCEPT !.fed = @ + 1]
  /\ UNCHANGED <<connected, connection, clientVars, boolChan, pinReportChan, wire,
                 boardPos, closed, closedRead, taskVars, discPc, discLeft,
                 writeFailsLeft, readErrsLeft, apiLeft, apiCall, panicked, acked,
                 pinStateChan, i2cChan, qry, sel>>
  /\ UNCHANGED reqVars

\* process() (lines 376-541) on the bytes waiting in the transport; split is
\* how the transport hands over the three bytes of read(3).
DecodeProcess(split) ==
  /\ ~panicked
  /\ FrameReady(inbound[connection])
  /\ LET stream == inbound[connection]
         n == FrameLen(stream)
         head == read(SubSeq(stream, 1, 3), 3, split)
         cb == head \o SubSeq(stream, 4, n)
         r == Dispatch(Image, cb)
     IN /\ inbound' = [inbound EXCEPT ![connection] = SubSeq(stream, n + 1, Len(stream))]
        /\ pins' = r.pins
        /\ analogPins' = r.analogPins
        /\ protocolVersion' = r.protocolVersion
        /\ firmwareName' = r.firmwareName
        /\ panicked' = r.panic
        /\ last' = [fed |-> last.fed, calls |-> last.calls + 1, stream |-> stream,
                    split |-> split, head |-> head, buf |-> cb, taken |-> n,
                    pins |-> pins, analogPins |-> analogPins,
                    protocolVersion |-> protocolVersion,
                    firmwareName |-> firmwareName, emit |-> r.emit]
  /\ UNCHANGED <<connected, connection, boolChan, pinReportChan, wire, boardPos,
                 closed, closedRead, taskVars, discPc, discLeft, writeFailsLeft,
                 readErrsLeft, apiLeft, apiCall, acked, pinStateChan, i2cChan, qry,
                 sel>>
  /\ UNCHANGED reqVars

DecodeNext ==
  \/ \E f \in FedFrames : DecodeFeed(f)
  \/ \E split \in Splits : DecodeProcess(split)

DecodeSpec == DecodeInit /\ [][DecodeNext]_vars


(***************************************************************************)
(* Observations of a decoding run.                                         *)
(***************************************************************************)
\* A process() call was made and what it dispatched is the buffer last.buf.
Processed == last.calls > 0

\* The client image the last process() call started from.
ImageBefore ==
  [pins |-> last.pins, analogPins |-> last.analogPins,
   protocolVersion |-> last.protocolVersion, firmwareName |-> last.firmwareName]

IsDigital(buf) ==
  /\ Len(buf) >= 3
  /\ buf[1] >= DigitalMessageRangeStart
  /\ buf[1] <= DigitalMessageRangeEnd

IsAnalog(buf) ==
  /\ Len(buf) >= 3
  /\ buf[1] >= AnalogMessageRangeStart
  /\ buf[1] <= AnalogMessageRangeEnd

\* A sysex buffer of the given command.
IsSysex(buf, command) ==
  /\ Len(buf) >= 3
  /\ buf[1] = StartSysex
  /\ buf[2] = command
  /\ buf[Len(buf)] = EndSysex

(***************************************************************************)
(* C11: processing a Digital message (port, lo, hi) sets the value of      *)
(* exactly the existing pins 8*port+i, i in 0..7, whose mode is Input to   *)
(* bit i of the 8-bit mask lo | hi<<7, and leaves every other pin as it    *)
(* was.                                                                    *)
(***************************************************************************)
C11_DigitalUpdatesInputPins ==
  (Processed /\ IsDigital(last.buf)) =>
    LET port == last.buf[1] % 16
        mask == BitOr(last.buf[2] % 256, (last.buf[3] * 128) % 256)
    IN /\ Len(pins) = Len(last.pins)
       /\ \A p \in 1..Len(pins) :
            LET i == (p - 1) - 8 * port
            IN IF i \in 0..7 /\ last.pins[p].Mode = Input
               THEN pins[p] = [last.pins[p] EXCEPT !.Value = (mask \div (2 ^ i)) % 2]
               ELSE pins[p] = last.pins[p]

\* A digital message changed an Input pin and passed over a pin of the same
\* port that is not Input and whose value differs from its bit.
C11_Witness ==
  /\ Processed
  /\ IsDigital(last.buf)
  /\ \E p \in 1..Len(pins) : pins[p].Value # last.pins[p].Value
  /\ \E p \in 1..Len(pins) :
       LET i == (p - 1) - 8 * (last.buf[1] % 16)
       IN /\ i \in 0..7
          /\ last.pins[p].Mode # Input
          /\ last.pins[p].Value # (last.buf[2] \div (2 ^ i)) % 2

(***************************************************************************)
(* C12: processing an Analog message (ch, lo, hi): when ch is below the    *)
(* length of the analog-pin map and the mapped pin exists, that pin's      *)
(* value becomes lo | hi<<7 and nothing else changes; when ch is at or     *)
(* above the length of the map, the whole client state is unchanged and    *)
(* nothing is sent to any sink.                                            *)
(***************************************************************************)
C12_AnalogUpdatesMappedPin ==
  (Processed /\ IsAnalog(last.buf)) =>
    LET ch == last.buf[1] % 16
        value == BitOr(last.buf[2], last.buf[3] * 128)
    IN /\ (ch < Len(last.analogPins) /\ last.analogPins[ch + 1] < Len(last.pins)) =>
            /\ pins = [last.pins EXCEPT ![last.analogPins[ch + 1] + 1].Value = value]
            /\ analogPins = last.analogPins
            /\ protocolVersion = last.protocolVersion
            /\ firmwareName = last.firmwareName
       /\ ch >= Len(last.analogPins) =>
            /\ Image = ImageBefore
            /\ last.emit = <<>>

\* An analog message with a value above 127 changed the mapped pin.
C12_Witness ==
  /\ Processed
  /\ IsAnalog(last.buf)
  /\ last.buf[3] > 0
  /\ pins # last.pins

Terminators(buf) == Cardinality({j \in 3..(Len(buf) - 1) : buf[j] = 127})

C13_CapabilityPinCount ==
  (Processed /\ IsSysex(last.buf, CapabilityResponse)) =>
    /\ ~panicked
    /\ Len(pins) = Terminators(last.buf)
    /\ \A p \in 1..Len(pins) :
         /\ \A i \in 1..Len(pins[p].SupportedModes) : pins[p].SupportedModes[i] \in Modes
         /\ pins[p].Mode = Output

(***************************************************************************)
(* C14 (as claimed): after an AnalogMappingResponse that carries one       *)
(* mapping byte per pin of the table, pin i has analog channel equal to    *)
(* mapping byte i and analogPins lists, in increasing order, the pins      *)
(* whose byte is not 0x7F.  The code walks currentBuffer[2:len(pins)-1],   *)
(* three bytes fewer than there are pins.                                  *)
(***************************************************************************)
MappedPins(buf, n) ==
  SelectSeq([i \in 1..n |-> i - 1], LAMBDA x : buf[x + 3] # 127)

C14_AnalogMappingAssignsChannels ==
  (/\ Processed
   /\ IsSysex(last.buf, AnalogMappingResponse)
   /\ Len(last.buf) - 3 = Len(last.pins)) =>
    /\ ~panicked
    /\ Len(pins) = Len(last.pins)
    /\ \A i \in 1..Len(pins) : pins[i].AnalogChannel = last.buf[i + 2]
    /\ analogPins = MappedPins(last.buf, Len(last.pins))

(***************************************************************************)
(* C16 (as claimed): an I2CReply with payload b emits a reply with address *)
(* b[0] | b[1]<<7 and register b[2] | b[3]<<7 as 14-bit values and one     *)
(* data byte (lo | hi<<7) mod 256 per complete pair from offset 4, so no   *)
(* pair gives empty data and a trailing odd byte is ignored.  The code     *)
(* computes address and register in byte arithmetic, always decodes a      *)
(* first pair from offsets 4 and 5, and pairs a trailing byte with         *)
(* EndSysex.                                                               *)
(***************************************************************************)
C16_I2cReplyDecoded ==
  (Processed /\ IsSysex(last.buf, I2CReply) /\ Len(last.buf) >= 7) =>
    LET b == SubSeq(last.buf, 3, Len(last.buf) - 1)
        pairs == (Len(b) - 4) \div 2
    IN /\ ~panicked
       /\ last.emit =
            <<[kind |-> "i2c",
               data |-> [Address |-> BitOr(b[1], b[2] * 128),
                         Register |-> BitOr(b[3], b[4] * 128),
                         Data |-> [j \in 1..pairs |->
                                     BitOr(b[3 + 2 * j], b[4 + 2 * j] * 128) % 256]]]>>

(***************************************************************************)
(* C17 (as claimed): when the stream starts with writeSysex(B) for a body  *)
(* B of one or more bytes without 0xF7, process() reads exactly those      *)
(* len(B)+2 bytes and dispatches exactly that frame.  The code reads three *)
(* bytes first and looks for EndSysex only in the bytes after them: a      *)
(* one-byte body's EndSysex is among the three, and the reader goes on     *)
(* into the following frame.  Stated for reads that deliver the three      *)
(* bytes unsplit.                                                          *)
(***************************************************************************)
EndPositions(stream) == {j \in 2..Len(stream) : stream[j] = EndSysex}

C17_SysexRoundTrip ==
  (/\ Processed
   /\ last.head = SubSeq(last.stream, 1, 3)
   /\ last.stream[1] = StartSysex
   /\ EndPositions(last.stream) # {}
   /\ Min(EndPositions(last.stream)) >= 3) =>
    /\ last.taken = Min(EndPositions(last.stream))
    /\ last.buf = SubSeq(last.stream, 1, Min(EndPositions(last.stream)))

(***************************************************************************)
(* C18 (as claimed): a status byte that is none of 0xF9, 0x90..0x9F,       *)
(* 0xE0..0xEF, 0xF0 is discarded alone: the next frame starts at the byte  *)
(* after it and the client state and the sinks are untouched.  The code    *)
(* has read three bytes before it looks at the first.                      *)
(***************************************************************************)
KnownStatus(b) ==
  \/ b = ProtocolVersion
  \/ b >= DigitalMessageRangeStart /\ b <= DigitalMessageRangeEnd
  \/ b >= AnalogMessageRangeStart /\ b <= AnalogMessageRangeEnd
  \/ b = StartSysex

C18_UnknownStatusSkipsOneByte ==
  (Processed /\ last.stream[1] >= 128 /\ ~KnownStatus(last.stream[1])) =>
    /\ last.taken = 1
    /\ Image = ImageBefore
    /\ last.emit = <<>>

(***************************************************************************)
(* C19 (as claimed): however the transport splits the stream into read     *)
(* results, read(3) returns exactly the next three bytes in order.  The    *)
(* code appends the whole of tmp after a short read, zero padding          *)
(* included.                                                               *)
(***************************************************************************)
C19_ReadReturnsNextBytes ==
  Processed => last.head = SubSeq(last.stream, 1, 3)


(***************************************************************************)
(* Queries.  On a connected client, goroutines of the application call     *)
(* PinStateQuery(QueriedPin) or I2cRead(QueriedAddress, 3) and receive on  *)
(* the channel returned, while the serving goroutine runs process().  The  *)
(* query function writes, then stores a new channel (lines 259-265,        *)
(* 307-314).  process() evaluates the channel operand of its select and    *)
(* then tries the send (lines 494-497, 516-518); nothing orders the two    *)
(* against the store.  A channel is named by the task that made it.        *)
(***************************************************************************)
QueryKinds == {"pinstate", "i2c"}

QueryRequest(kind) ==
  IF kind = "pinstate" THEN PinStateQueryFrame(QueriedPin)
                       ELSE I2cReadFrame(QueriedAddress, 3)

\* The channel now stored for the kind of query.
Stored(kind) == IF kind = "pinstate" THEN pinStateChan ELSE i2cChan

QueryInit ==
  /\ connected = TRUE
  /\ connection = 1
  /\ pins = HandshakeImage.pins
  /\ analogPins = HandshakeImage.analogPins
  /\ protocolVersion = HandshakeImage.protocolVersion
  /\ firmwareName = HandshakeImage.firmwareName
  /\ boolChan = [n \in {QNames[q] : q \in 1..4} |-> 1]
  /\ pinReportChan = <<1, 1>>
  /\ wire = [c \in Calls |-> <<>>]
  /\ boardPos = [c \in Calls |-> 0]
  /\ inbound = [c \in Calls |-> <<>>]
  /\ closed = [c \in Calls |-> FALSE]
  /\ closedRead = [c \in Calls |-> "open"]
  /\ mainPc = [k \in Calls |-> IF k = 1 THEN "returned" ELSE "idle"]
  /\ mainRet = [k \in Calls |-> IF k = 1 THEN "nil" ELSE "none"]
  /\ hs = [k \in Calls |-> IF k = 1 THEN [step |-> "done", q |-> 4, s |-> FALSE]
                                     ELSE [step |-> "off", q |-> 0, s |-> FALSE]]
  /\ srvPc = [k \in Calls |-> IF k = 1 THEN "process" ELSE "off"]
  /\ discPc = "idle"
  /\ discLeft = 0
  /\ writeFailsLeft = MaxWriteFails
  /\ readErrsLeft = 0
  /\ apiLeft = 0
  /\ apiCall = NoCall
  /\ panicked = FALSE
  /\ acked = [k \in Calls |-> IF k = 1 THEN {1, 2, 3, 4} ELSE {}]
  /\ SinkInit

\* b.writeSysex(...) of PinStateQuery or I2cRead; on an error the function
\* returns a nil channel and the error.
QueryWrite(t, kind) ==
  /\ ~panicked
  /\ qry[t].pc = "idle"
  /\ \E ok \in BOOLEAN :
       /\ write(0, QueryRequest(kind), ok)
       /\ qry' = [qry EXCEPT ![t] = [kind |-> kind, pc |-> IF ok THEN "make" ELSE "failed",
                                     ch |-> -1, late |-> FALSE]]
  /\ UNCHANGED <<connected, connection, clientVars, boolChan, pinReportChan,
                 boardPos, inbound, closed, closedRead, taskVars, discPc, discLeft,
                 readErrsLeft, apiLeft, apiCall, panicked, acked, last,
                 pinStateChan, i2cChan, sel>>
  /\ UNCHANGED reqVars

\* b.pinStateChan[pin] = make(chan Pin) or b.i2cChan = make(chan I2cReply);
\* the caller then receives on the channel returned.
QueryMake(t) ==
  /\ ~panicked
  /\ qry[t].pc = "make"
  /\ IF qry[t].kind = "pinstate"
     THEN pinStateChan' = t /\ UNCHANGED i2cChan
     ELSE i2cChan' = t /\ UNCHANGED pinStateChan
  /\ qry' = [qry EXCEPT ![t].pc = "recv", ![t].ch = t]
  /\ UNCHANGED <<connected, connection, clientVars, boolChan, pinReportChan, wire,
                 boardPos, inbound, closed, closedRead, taskVars, discPc, discLeft,
                 writeFailsLeft, readErrsLeft, apiLeft, apiCall, panicked, acked,
                 last, sel>>
  /\ UNCHANGED reqVars

\* The channel operand the select of a frame's case evaluates.
Operand(emit) ==
  IF emit = <<>> THEN NoSel
  ELSE IF emit[1].kind = "pinstate"
       THEN [kind |-> "pinstate",
             ch |-> IF emit[1].pin = QueriedPin THEN pinStateChan ELSE -1]
  ELSE IF emit[1].kind = "i2c" THEN [kind |-> "i2c", ch |-> i2cChan]
  ELSE NoSel

\* The serving goroutine's process() up to the select of the frame's case:
\* the frame is read, the client updated, the channel operand evaluated.
QueryProcess ==
  /\ ~panicked
  /\ srvPc[connection] = "process"
  /\ sel = NoSel
  /\ CanRead
  /\ LET stream == inbound[connection]
         n == FrameLen(stream)
         r == Dispatch(Image, SubSeq(stream, 1, n))
     IN /\ inbound' = [inbound EXCEPT ![connection] = SubSeq(stream, n + 1, Len(stream))]
        /\ pins' = r.pins
        /\ analogPins' = r.analogPins
        /\ protocolVersion' = r.protocolVersion
        /\ firmwareName' = r.firmwareName
        /\ panicked' = r.panic
        /\ sel' = IF r.panic THEN NoSel ELSE Operand(r.emit)
  /\ UNCHANGED <<connected, connection, boolChan, pinReportChan, wire, boardPos,
                 closed, closedRead, taskVars, discPc, discLeft, writeFailsLeft,
                 readErrsLeft, apiLeft, apiCall, acked, last, pinStateChan, i2cChan,
                 qry>>
  /\ UNCHANGED reqVars

\* The select itself: the send goes through when a goroutine is blocked
\* receiving on the channel that was evaluated, else the default is taken.
\* late records that the channel was no longer the stored one by then.
QuerySend ==
  /\ ~panicked
  /\ sel # NoSel
  /\ qry' = [t \in Tasks |->
               IF qry[t].pc = "recv" /\ qry[t].kind = sel.kind /\ qry[t].ch = sel.ch
               THEN [qry[t] EXCEPT !.pc = "got", !.late = (Stored(sel.kind) # sel.ch)]
               ELSE qry[t]]
  /\ sel' = NoSel
  /\ UNCHANGED <<connected, connection, clientVars, boolChan, pinReportChan, wire,
                 boardPos, inbound, closed, closedRead, taskVars, discPc, discLeft,
                 writeFailsLeft, readErrsLeft, apiLeft, apiCall, panicked, acked,
                 last, pinStateChan, i2cChan>>
  /\ UNCHANGED reqVars

QueryNext ==
  \/ \E t \in Tasks, kind \in QueryKinds : QueryWrite(t, kind)
  \/ \E t \in Tasks : QueryMake(t)
  \/ BoardStep(1)
  \/ QueryProcess
  \/ QuerySend

QuerySpec == QueryInit /\ [][QueryNext]_vars

(***************************************************************************)
(* C20 (as claimed): once a new query of the same kind has been issued,    *)
(* the channel returned by the earlier query is never signaled; a response *)
(* is delivered only to the channel of the most recent query.  In the code *)
(* process() may have evaluated the old channel before the new one was     *)
(* stored and send on it afterwards.                                       *)
(***************************************************************************)
C20_SupersededSinkSilent == \A t \in Tasks : ~qry[t].late


(***************************************************************************)
(* Delivery.  On a connected client the serving goroutine runs process()   *)
(* while the board sends frames of every type and goroutines of the        *)
(* application wait on the channels their queries returned.  Every send of *)
(* process() is a select with a default case (lines 386-389, 399-402,      *)
(* 416-419, 462-465, 479-482, 495-498, 516-519, 528-531, 534-537).  The    *)
(* sends of one process() call wait in pending between the dispatch and    *)
(* the selects.                                                            *)
(***************************************************************************)
\* One frame of every type the dispatcher knows.
DeliverFrames ==
  {ProtocolResponse, <<DigitalMessage, 5, 0>>, <<AnalogMessage, 35, 5>>,
   FirmwareResponse, CapabilitiesResponse,
   <<StartSysex, AnalogMappingResponse, 127, 127, 127, 127, 127, 127, 0, 1, 127,
     2, EndSysex>>,
   PinStateAnswer, I2cAnswer, writeSysex(<<StringData, 72, 105>>)}

DeliverInit ==
  /\ connected = TRUE
  /\ connection = 1
  /\ pins = BoardImage.pins
  /\ analogPins = BoardImage.analogPins
  /\ protocolVersion = BoardImage.protocolVersion
  /\ firmwareName = BoardImage.firmwareName
  /\ boolChan = [n \in {QNames[q] : q \in 1..4} |-> 1]
  /\ pinReportChan = <<1, 1>>
  /\ wire = [c \in Calls |-> <<>>]
  /\ boardPos = [c \in Calls |-> 0]
  /\ inbound = [c \in Calls |-> <<>>]
  /\ closed = [c \in Calls |-> FALSE]
  /\ closedRead = [c \in Calls |-> "open"]
  /\ mainPc = [k \in Calls |-> IF k = 1 THEN "returned" ELSE "idle"]
  /\ mainRet = [k \in Calls |-> IF k = 1 THEN "nil" ELSE "none"]
  /\ hs = [k \in Calls |-> IF k = 1 THEN [step |-> "done", q |-> 4, s |-> FALSE]
                                     ELSE [step |-> "off", q |-> 0, s |-> FALSE]]
  /\ srvPc = [k \in Calls |-> IF k = 1 THEN "process" ELSE "off"]
  /\ discPc = "idle"
  /\ discLeft = 0
  /\ writeFailsLeft = 0
  /\ readErrsLeft = 0
  /\ apiLeft = 0
  /\ apiCall = NoCall
  /\ panicked = FALSE
  /\ acked = [k \in Calls |-> IF k = 1 THEN {1, 2, 3, 4} ELSE {}]
  /\ SinkInit

\* The goroutines blocked receiving on the channel a send evaluates to.
\* Nobody holds the report channels the handshake made or stringDataChan,
\* and a pin without an entry in its map gives a nil channel.
Ready(e) ==
  CASE e.kind = "bool" -> Receiver(e.name)
    [] e.kind = "pinstate" ->
         {t \in Tasks : /\ e.pin = QueriedPin
                        /\ qry[t].pc = "recv"
                        /\ qry[t].kind = "pinstate"
                        /\ qry[t].ch = pinStateChan}
    [] e.kind = "i2c" ->
         {t \in Tasks : /\ qry[t].pc = "recv"
                        /\ qry[t].kind = "i2c"
                        /\ qry[t].ch = i2cChan}
    [] OTHER -> {}

\* process() up to its first select: the frame is read and the client
\* updated; a frame without a send returns at once.
DeliverProcess ==
  /\ ~panicked
  /\ srvPc[connection] = "process"
  /\ CanRead
  /\ LET stream == inbound[connection]
         n == FrameLen(stream)
         r == Dispatch(Image, SubSeq(stream, 1, n))
     IN /\ inbound' = [inbound EXCEPT ![connection] = SubSeq(stream, n + 1, Len(stream))]
        /\ pins' = r.pins
        /\ analogPins' = r.analogPins
        /\ protocolVersion' = r.protocolVersion
        /\ firmwareName' = r.firmwareName
        /\ panicked' = r.panic
        /\ pending' = IF r.panic THEN <<>> ELSE r.emit
        /\ last' = [last EXCEPT !.buf = SubSeq(stream, 1, n), !.emit = r.emit]
        /\ srvPc' = [srvPc EXCEPT ![connection] =
                       IF r.panic \/ r.emit = <<>> THEN "check" ELSE "send"]
  /\ UNCHANGED <<connected, connection, boolChan, pinReportChan, wire, boardPos,
                 closed, closedRead, mainPc, mainRet, hs, discPc, discLeft,
                 writeFailsLeft, readErrsLeft, apiLeft, apiCall, acked,
                 pinStateChan, i2cChan, qry, sel, Error, errPc, capWalk>>

\* A variant of DeliverSend whose send is a plain ch <- v: it waits for a
\* receiver.
DeliverSend_Blocking ==
  /\ ~panicked
  /\ srvPc[connection] = "send"
  /\ Ready(Head(pending)) # {}
  /\ qry' = [t \in Tasks |->
               IF t \in Ready(Head(pending)) THEN [qry[t] EXCEPT !.pc = "got"] ELSE qry[t]]
  /\ pending' = Tail(pending)
  /\ srvPc' = [srvPc EXCEPT ![connection] =
                 IF Tail(pending) = <<>> THEN "check" ELSE "send"]
  /\ UNCHANGED <<connected, connection, clientVars, boolChan, pinReportChan, wire,
                 boardPos, inbound, closed, closedRead, mainPc, mainRet, hs, discPc,
                 discLeft, writeFailsLeft, readErrsLeft, apiLeft, apiCall, panicked,
                 acked, last, pinStateChan, i2cChan, sel, Error, errPc, capWalk>>

\* select { case ch <- v: default: } for the next send of the call: it goes
\* to the goroutine blocked on the channel, or nowhere.  After the last one
\* process() returns.
DeliverSend ==
  /\ ~panicked
  /\ srvPc[connection] = "send"
  /\ qry' = [t \in Tasks |->
               IF t \in Ready(Head(pending)) THEN [qry[t] EXCEPT !.pc = "got"] ELSE qry[t]]
  /\ pending' = Tail(pending)
  /\ srvPc' = [srvPc EXCEPT ![connection] =
                 IF Tail(pending) = <<>> THEN "check" ELSE "send"]
  /\ UNCHANGED <<connected, connection, clientVars, boolChan, pinReportChan, wire,
                 boardPos, inbound, closed, closedRead, mainPc, mainRet, hs, discPc,
                 discLeft, writeFailsLeft, readErrsLeft, apiLeft, apiCall, panicked,
                 acked, last, pinStateChan, i2cChan, sel, Error, errPc, capWalk>>

\* The board sends its next frame when the last one was read.  One goroutine
\* of the application issues a query and waits for the answer.
DeliverFeed(f) == inbound[connection] = <<>> /\ DecodeFeed(f)

DeliverNext ==
  \/ \E f \in DeliverFrames : DeliverFeed(f)
  \/ \E kind \in QueryKinds : QueryWrite(1, kind)
  \/ QueryMake(1)
  \/ ServeCheck(1)
  \/ DeliverProcess
  \/ DeliverSend

\* The serving goroutine keeps being scheduled.
DeliverSpec ==
  /\ DeliverInit
  /\ [][DeliverNext]_vars
  /\ WF_vars(ServeCheck(1))
  /\ WF_vars(DeliverProcess)
  /\ WF_vars(DeliverSend)

(***************************************************************************)
(* C21: dispatching a frame never blocks on a sink.  At every send of      *)
(* process() the update the frame made to the client is already in place   *)
(* and stays; when no receiver is ready on the sink the notification goes  *)
(* to nobody; and a process() call that has sends to make always gets      *)
(* through them and returns, so that the loop reads the next frame.        *)
(***************************************************************************)
\* The pin a notification carries is the pin as the table has it.
Applied(e) ==
  e.kind \in {"report", "pinstate"} => e.pin < Len(pins) /\ pins[e.pin + 1] = e.data

ErrorRecv ==
  /\ ~panicked
  /\ errPc = "idle"
  /\ errPc' = "recv"
  /\ UNCHANGED <<connected, connection, clientVars, boolChan, pinReportChan, wire,
                 boardPos, inbound, closed, closedRead, taskVars, discPc, discLeft,
                 writeFailsLeft, readErrsLeft, apiLeft, apiCall, panicked, acked>>
  /\ UNCHANGED <<last, pinStateChan, i2cChan, qry, sel, pending, Error, capWalk>>

ErrorNext ==
  \/ ErrorRecv
  \/ \E f \in DeliverFrames : DecodeFeed(f)
  \/ ServeCheck(1)
  \/ ServeProcess(1)
  \/ ServeReadError(1)
  \/ ServeReadEOF(1)
  \/ DisconnectCall
  \/ DisconnectClose

ErrorSpec == ApiInit /\ [][ErrorNext]_vars

(***************************************************************************)
(* C22 (as claimed): when a read of the serving loop fails with a non-EOF  *)
(* error while connected is true and a consumer is blocked receiving on    *)
(* the client's Error sink, the consumer receives the error and the loop   *)
(* goes on to its next round.  The Error field is never given a channel,   *)
(* so the consumer waits on a nil channel and the error is dropped.        *)
(***************************************************************************)
C22_ErrorReachesConsumer ==
  [][\A k \in Calls :
       (/\ srvPc[k] = "process"
        /\ readErrsLeft' < readErrsLeft
        /\ connected
        /\ errPc = "recv") =>
          /\ errPc' = "got"
          /\ srvPc'[k] = "check"]_vars


(***************************************************************************)
(* C23 (as claimed): Disconnect on a client to which no transport was ever *)
(* attached returns without faulting and leaves connected false and the    *)
(* rest of the client as it was.  The code calls Close on the nil          *)
(* connection.                                                             *)
(***************************************************************************)
C23_DisconnectWithoutTransport ==
  [][(discPc = "close" /\ connection = 0 /\ discPc' = "idle") =>
       /\ ~panicked'
       /\ ~connected'
       /\ UNCHANGED <<connection, clientVars, boolChan, pinReportChan, wire,
                      closed>>]_vars


(***************************************************************************)
(* C24 (as claimed): a sysex frame whose body is shorter than its          *)
(* subcommand needs (a PinStateResponse without mode and state, an         *)
(* I2CReply without address, register and one data pair, a                 *)
(* CapabilityResponse or firmware response shorter than what the decoder   *)
(* skips) is dropped: no fault, the client unchanged, nothing sent.  The   *)
(* code indexes and slices the buffer without looking at its length.       *)
(***************************************************************************)
ShortSysex(buf) ==
  \/ IsSysex(buf, PinStateResponse) /\ Len(buf) < 6
  \/ IsSysex(buf, I2CReply) /\ Len(buf) < 9
  \/ IsSysex(buf, CapabilityResponse) /\ Len(buf) < 7
  \/ IsSysex(buf, FirmwareQuery) /\ Len(buf) < 5

C24_ShortSysexDropped ==
  (Processed /\ ShortSysex(last.buf)) =>
    /\ ~panicked
    /\ Image = ImageBefore
    /\ last.emit = <<>>


(***************************************************************************)
(* Requests.  The application calls SetPinMode, DigitalWrite, AnalogWrite, *)
(* PinStateQuery and I2cRead on a connected client that learned ten pins;  *)
(* transport writes may fail.  Beside it the serving goroutine runs        *)
(* process() on the capability responses the board sends, one round of the *)
(* loop of the CapabilityResponse case at a time.  Nothing in the client   *)
(* orders the two goroutines' accesses to b.pins.                          *)
(***************************************************************************)
RequestInit ==
  /\ connected = TRUE
  /\ connection = 1
  /\ pins = BoardImage.pins
  /\ analogPins = BoardImage.analogPins
  /\ protocolVersion = BoardImage.protocolVersion
  /\ firmwareName = BoardImage.firmwareName
  /\ boolChan = [n \in {QNames[q] : q \in 1..4} |-> 1]
  /\ pinReportChan = <<1, 1>>
  /\ wire = [c \in Calls |-> <<>>]
  /\ boardPos = [c \in Calls |-> 0]
  /\ inbound = [c \in Calls |-> <<>>]
  /\ closed = [c \in Calls |-> FALSE]
  /\ closedRead = [c \in Calls |-> "open"]
  /\ mainPc = [k \in Calls |-> IF k = 1 THEN "returned" ELSE "idle"]
  /\ mainRet = [k \in Calls |-> IF k = 1 THEN "nil" ELSE "none"]
  /\ hs = [k \in Calls |-> IF k = 1 THEN [step |-> "done", q |-> 4, s |-> FALSE]
                                     ELSE [step |-> "off", q |-> 0, s |-> FALSE]]
  /\ srvPc = [k \in Calls |-> IF k = 1 THEN "process" ELSE "off"]
  /\ discPc = "idle"
  /\ discLeft = 0
  /\ writeFailsLeft = MaxWriteFails
  /\ readErrsLeft = 0
  /\ apiLeft = MaxApiCalls
  /\ apiCall = NoCall
  /\ panicked = FALSE
  /\ acked = [k \in Calls |-> IF k = 1 THEN {1, 2, 3, 4} ELSE {}]
  /\ SinkInit

\* The values the application writes.
WrittenValues == {0, 1, 200}

\* The pins the application addresses, of those the table has.
RequestPins == {pin \in {0, 1, 8} : pin < Len(pins)}

\* The serving goroutine's process() reads a CapabilityResponse and enters
\* its case: b.pins = []Pin{} (line 438), then the loop over
\* currentBuffer[2:len-5] begins.
CapBegin ==
  /\ ~panicked
  /\ srvPc[connection] = "process"
  /\ CanRead
  /\ LET stream == inbound[connection]
         n == FrameLen(stream)
         cb == SubSeq(stream, 1, n)
     IN /\ IsSysex(cb, CapabilityResponse)
        /\ inbound' = [inbound EXCEPT ![connection] = SubSeq(stream, n + 1, Len(stream))]
        /\ pins' = <<>>
        /\ IF Len(cb) - 5 < 2
           THEN panicked' = TRUE /\ UNCHANGED <<capWalk, srvPc>>
           ELSE /\ capWalk' = [body |-> Slice(cb, 2, Len(cb) - 5), i |-> 1,
                               bits |-> {}, n |-> 0]
                /\ srvPc' = [srvPc EXCEPT ![connection] = "rebuild"]
                /\ UNCHANGED panicked
  /\ UNCHANGED <<connected, connection, analogPins, protocolVersion, firmwareName,
                 boolChan, pinReportChan, wire, boardPos, closed, closedRead,
                 mainPc, mainRet, hs, discPc, discLeft, writeFailsLeft, readErrsLeft,
                 apiLeft, apiCall, acked>>
  /\ UNCHANGED <<last, pinStateChan, i2cChan, qry, sel, pending, Error, errPc>>

\* One round of the loop (lines 442-461): 127 appends a pin to b.pins, any
\* other byte is a mode or its resolution.
CapStep ==
  /\ ~panicked
  /\ srvPc[connection] = "rebuild"
  /\ capWalk.i <= Len(capWalk.body)
  /\ LET val == capWalk.body[capWalk.i]
     IN IF val = 127
        THEN /\ pins' = Append(pins, NewPin(ModesOf(capWalk.bits)))
             /\ capWalk' = [capWalk EXCEPT !.i = @ + 1, !.bits = {}, !.n = 0]
        ELSE /\ capWalk' = [capWalk EXCEPT
                              !.i = @ + 1,
                              !.bits = IF capWalk.n = 0 /\ val < 64
                                       THEN @ \cup {val} ELSE @,
                              !.n = 1 - @]
             /\ UNCHANGED pins
  /\ UNCHANGED <<connected, connection, analogPins, protocolVersion, firmwareName,
                 boolChan, pinReportChan, wire, boardPos, inbound, closed, closedRead,
                 taskVars, discPc, discLeft, writeFailsLeft, readErrsLeft, apiLeft,
                 apiCall, panicked, acked>>
  /\ UNCHANGED <<last, pinStateChan, i2cChan, qry, sel, pending, Error, errPc>>

\* The loop is over: the select on boolChan["CapabilityQuery"] (lines
\* 462-465), and process() returns.
CapEnd ==
  /\ ~panicked
  /\ srvPc[connection] = "rebuild"
  /\ capWalk.i > Len(capWalk.body)
  /\ capWalk' = NoWalk
  /\ Signal(<<BoolSignal("CapabilityQuery")>>)
  /\ srvPc' = [srvPc EXCEPT ![connection] = "check"]
  /\ UNCHANGED <<connected, connection, clientVars, boolChan, pinReportChan, wire,
                 boardPos, inbound, closed, closedRead, mainPc, mainRet, discPc,
                 discLeft, writeFailsLeft, readErrsLeft, apiLeft, apiCall, panicked>>
  /\ UNCHANGED <<last, pinStateChan, i2cChan, qry, sel, pending, Error, errPc>>

RequestNext ==
  \/ \E pin \in RequestPins, mode \in Modes : SetPinMode(pin, mode)
  \/ \E pin \in RequestPins, value \in WrittenValues : DigitalWrite(pin, value)
  \/ \E pin \in RequestPins, value \in WrittenValues : AnalogWrite(pin, value)
  \/ \E kind \in QueryKinds : QueryWrite(1, kind)
  \/ QueryMake(1)
  \/ DecodeFeed(CapabilitiesResponse)
  \/ ServeCheck(1)
  \/ CapBegin
  \/ CapStep
  \/ CapEnd

RequestSpec == RequestInit /\ [][RequestNext]_vars

\* A Request API call returned the error of its transport write in this step.
WriteErrorReturned ==
  \/ apiLeft' < apiLeft /\ apiCall'.ret = "werr"
  \/ \E t \in Tasks : qry[t].pc = "idle" /\ qry'[t].pc = "failed"

(***************************************************************************)
(* C25 (as claimed): when the transport write of a Request API operation   *)
(* fails, the call returns the error and leaves the pin table and the      *)
(* registered sinks exactly as they were.  DigitalWrite stores the value   *)
(* in the pin before it writes.                                            *)
(***************************************************************************)
C25_WriteFailureChangesNothing ==
  [][WriteErrorReturned =>
       UNCHANGED <<pins, analogPins, boolChan, pinReportChan, pinStateChan,
                   i2cChan>>]_vars

(***************************************************************************)
(* C28 (as claimed): on a pin table of any length n, DigitalWrite(p, v)    *)
(* for p in 0..n-1 does not fault, sets the value of pin p to v and, when  *)
(* the write succeeds, puts exactly one frame on the wire,                 *)
(* [0x90 | p/8, mask & 0x7F, (mask >> 7) & 0x7F], where bit i of mask is   *)
(* set exactly when pin 8*(p/8)+i exists and has a non-zero value.  The    *)
(* code reads all eight pins of the port, existing or not.                 *)
(***************************************************************************)
RECURSIVE MaskOf(_, _, _)
\* The mask of a port over the pins of it that exist.
MaskOf(table, port, i) ==
  IF i >= 8 THEN 0
  ELSE (IF 8 * port + i < Len(table) /\ table[8 * port + i + 1].Value # 0
        THEN 2 ^ i ELSE 0) + MaskOf(table, port, i + 1)

C28_DigitalWriteAnyTable ==
  [][(apiLeft' < apiLeft /\ apiCall'.op = "DigitalWrite") =>
       LET p == apiCall'.pin
           mask == MaskOf(pins', p \div 8, 0)
       IN /\ ~panicked'
          /\ pins' = [pins EXCEPT ![p + 1].Value = apiCall'.value]
          /\ apiCall'.ret = "nil" =>
               wire'[connection] =
                 Append(wire[connection],
                        [by |-> 0,
                         data |-> <<DigitalMessage + p \div 8, mask % 128,
                                    (mask \div 128) % 128>>])]_vars


(***************************************************************************)
(* C27 (as claimed): no Request API operation reads or writes the pin      *)
(* table while the dispatcher is partway through applying an inbound       *)
(* frame, so a request never meets a partly rebuilt table.  The client has *)
(* no lock: a request may run between two rounds of the rebuild.           *)
(***************************************************************************)
C27_PinModelExclusive ==
  [][apiLeft' < apiLeft => capWalk = NoWalk]_vars


(***************************************************************************)
(* Connect after Disconnect.  ReconnectInit is the client after Connect    *)
(* call 1 returned nil, Disconnect set connected to false and closed       *)
(* transport 1, and the application has called Connect again with          *)
(* transport 2, which found connected false and installed it (line 151).   *)
(* The serving goroutine of call 1 has not yet looked at connected again:  *)
(* it is at the test of its loop, inside process(), or asleep in read().   *)
(***************************************************************************)
ReconnectInit ==
  /\ connected = FALSE
  /\ connection = 2
  /\ pins = HandshakeImage.pins
  /\ analogPins = HandshakeImage.analogPins
  /\ protocolVersion = HandshakeImage.protocolVersion
  /\ firmwareName = HandshakeImage.firmwareName
  /\ boolChan = [n \in {QNames[q] : q \in 1..4} |-> 1]
  /\ pinReportChan = <<1, 1>>
  /\ wire = [c \in Calls |->
              IF c = 1 THEN [i \in 1..7 |-> [by |-> 1, data |-> HandshakeFrames[i]]]
                       ELSE <<>>]
  /\ boardPos = [c \in Calls |-> IF c = 1 THEN 7 ELSE 0]
  /\ inbound = [c \in Calls |-> <<>>]
  /\ closed = [c \in Calls |-> c = 1]
  /\ closedRead \in {[c \in Calls |-> IF c = 1 THEN r ELSE "open"] : r \in {"err", "eof"}}
  /\ mainPc = [k \in Calls |-> IF k = 1 THEN "returned" ELSE IF k = 2 THEN "reset" ELSE "idle"]
  /\ mainRet = [k \in Calls |-> IF k = 1 THEN "nil" ELSE "none"]
  /\ hs = [k \in Calls |-> IF k = 1 THEN [step |-> "done", q |-> 4, s |-> FALSE]
                                     ELSE [step |-> "off", q |-> 0, s |-> FALSE]]
  /\ srvPc \in {[k \in Calls |-> IF k = 1 THEN p ELSE "off"] :
                  p \in {"check", "process", "sleep"}}
  /\ discPc = "idle"
  /\ discLeft = 0
  /\ writeFailsLeft = MaxWriteFails
  /\ readErrsLeft = MaxReadErrs
  /\ apiLeft = 0
  /\ apiCall = NoCall
  /\ panicked = FALSE
  /\ acked = [k \in Calls |-> IF k = 1 THEN {1, 2, 3, 4} ELSE {}]
  /\ SinkInit

ReconnectNext ==
  \/ \E k \in Calls : ConnectReset(k)
  \/ \E k \in Calls : ConnectProcess(k)
  \/ \E k \in Calls : ConnectReadError(k)
  \/ \E k \in Calls : ConnectReadEOF(k)
  \/ \E k \in Calls : ConnectCheck(k)
  \/ \E k \in Calls : HsWrite(k)
  \/ \E k \in Calls : HsMake(k)
  \/ \E k \in Calls : HsSetConnected(k)
  \/ \E k \in Calls : HsReportDigital(k)
  \/ \E k \in Calls : ServeCheck(k)
  \/ \E k \in Calls : ServeProcess(k)
  \/ \E k \in Calls : ServeReadError(k)
  \/ \E k \in Calls : ServeReadEOF(k)
  \/ \E c \in Calls : BoardStep(c)

ReconnectSpec == ReconnectInit /\ [][ReconnectNext]_vars

\* The tasks that are inside process(), reading the installed transport.
Readers ==
  {<<"connect", k>> : k \in {j \in Calls : mainPc[j] \in {"process", "sleep"}}}
    \cup {<<"serve", k>> : k \in {j \in Calls : srvPc[j] \in {"process", "sleep"}}}

(***************************************************************************)
(* C26 (as claimed): at most one task is inside process() on the client's  *)
(* transport at any time, also when Connect is called again after          *)
(* Disconnect while the earlier serving goroutine has not yet exited.      *)
(* Nothing makes that goroutine exit before the new Connect starts its own *)
(* process() loop, and it reads whatever transport is installed.           *)
(***************************************************************************)
C26_SingleReader == Cardinality(Readers) <= 1


(***************************************************************************)
(* C29 (as claimed): the dispatcher never indexes the pin table out of     *)
(* range.  A PinStateResponse that names a pin the table does not have,    *)
(* and an AnalogMappingResponse that arrives when the table has fewer than *)
(* three pins or more pins than the frame has mapping bytes, cause no      *)
(* fault and leave the length of the table as it was.  The code uses the   *)
(* pin byte as an index unchecked and slices the buffer by the length of   *)
(* the table.                                                              *)
(***************************************************************************)
OutOfTable(buf, table) ==
  \/ IsSysex(buf, PinStateResponse) /\ Len(buf) >= 6 /\ buf[3] >= Len(table)
  \/ /\ IsSysex(buf, AnalogMappingResponse)
     /\ Len(table) < 3 \/ Len(table) > Len(buf) - 3

C29_PinIndexInRange ==
  (Processed /\ OutOfTable(last.buf, last.pins)) =>
    /\ ~panicked
    /\ Len(pins) = Len(last.pins)

====
